---- MODULE Spec2Model ----
(***************************************************************************)
(* A model of go-gits: the credential store (AuthConfig), the credential   *)
(* resolver (CreateProviderForURL), the provider factory (CreateProvider)  *)
(* and the eventually-consistent / paginated adapter operations of the     *)
(* Bitbucket, GitLab, Gitea, GitHub and Gerrit back ends.                  *)
(***************************************************************************)
EXTENDS Integers, Sequences, FiniteSets, TLC

VARIABLES
    config,     \* the AuthConfig held by the GenericAuthConfigService
    saved,      \* what the ConfigSaver last wrote (NoConfig: nothing yet)
    result,     \* outcome of the last credential operation
    hist,       \* history of SaveUserAuth calls (first call, counts)
    rb,         \* the create-pull-request / fork call in progress
    repos,      \* the repositories the vendor holds, as <<org, name>>
    vr,         \* the last ValidateRepositoryName call
    pg,         \* the list call in progress
    fake,       \* GitFakeProvider.Organisations
    pr,         \* a pull-request record and the vendor's pull request
    wh,         \* the webhooks of a repository on each back end
    ar          \* the last stateless adapter call and what it returned

authVars == <<config, saved, result, hist>>

adapterVars == <<rb, repos, vr, pg, fake, pr, wh>>

vars == <<config, saved, result, hist, rb, repos, vr, pg, fake,
         pr, wh, ar>>

(***************************************************************************)
(* Bounds and input universes                                              *)
(***************************************************************************)

\* how many SaveUserAuth calls (direct or through the resolver) a run makes
MaxSaves == 2

\* how many CreateProviderForURL calls a run makes
MaxResolves == 1

\* host URLs handed to the store and the resolver
Urls == {"github.com", "https://bitbucket.org"}

\* strings.HasPrefix(url, "https://bitbucket.org") over Urls
HasBitbucketOrgPrefix(url) == url \in {"https://bitbucket.org"}

KindGitHub == "github"
KindGitlab == "gitlab"
KindGitea == "gitea"
KindBitBucketCloud == "bitbucketcloud"
KindBitBucketServer == "bitbucketserver"

\* explicit git kinds a caller passes ("" is: none given)
GitKinds == {"", KindGitlab}

UserAuth(u, t, b) == [Username |-> u, ApiToken |-> t, BearerToken |-> b]

NoAuth == UserAuth("", "", "")

\* credentials a caller saves: two users with a token and a bearer-only
\* credential (valid, no user name)
Creds ==
    { UserAuth("alice", "tok", ""), UserAuth("bob", "tok", ""),
      UserAuth("", "", "bearer") }

\* strings.ToUpper over the kinds
ToUpper(kind) ==
    CASE kind = "github" -> "GITHUB"
      [] kind = "gitlab" -> "GITLAB"
      [] kind = "gitea" -> "GITEA"
      [] kind = "bitbucketcloud" -> "BITBUCKETCLOUD"
      [] kind = "bitbucketserver" -> "BITBUCKETSERVER"
      [] OTHER -> kind

Prefixes == {"GITHUB", "GITLAB", "GITEA", "BITBUCKETCLOUD", "BITBUCKETSERVER", "GIT"}

\* the environment: the kind prefixes hold a valid credential or a user name
\* without a token (invalid), the GIT prefix nothing or a bearer token
EnvWith(kindCred, gitCred) ==
    [p \in Prefixes |-> IF p = "GIT" THEN gitCred ELSE kindCred]

Envs ==
    { EnvWith(k, g) :
        k \in {UserAuth("envkind", "ktok", ""), UserAuth("envkind", "", "")},
        g \in {NoAuth, UserAuth("", "", "gbearer")} }

\* answers of the interactive collaborator (survey.Required: never empty)
PromptNames == {"carol"}
PromptTokens == {"ptok"}

(***************************************************************************)
(* AuthConfig (package auth)                                               *)
(***************************************************************************)

AuthServer(url, users, name, kind, cur) ==
    [URL |-> url, Users |-> users, Name |-> name, Kind |-> kind, CurrentUser |-> cur]

EmptyConfig ==
    [Servers |-> <<>>, DefaultUsername |-> "", CurrentServer |-> "",
     PipeLineUsername |-> "", PipeLineServer |-> ""]

NoConfig == [none |-> TRUE]

\* a check that forgets the username
IsInvalidWithoutToken(a) == a.BearerToken = "" /\ a.ApiToken = ""

IsInvalid(a) == a.BearerToken = "" /\ (a.ApiToken = "" \/ a.Username = "")

CreateAuthUserFromEnvironment(env, prefix) ==
    UserAuth(env[prefix].Username, env[prefix].ApiToken, env[prefix].BearerToken)

\* index of the first server with the URL, 0 if there is none
ServerIndex(c, url) ==
    IF \E i \in 1..Len(c.Servers) : c.Servers[i].URL = url
    THEN CHOOSE i \in 1..Len(c.Servers) :
            /\ c.Servers[i].URL = url
            /\ \A j \in 1..(i - 1) : c.Servers[j].URL # url
    ELSE 0

UserIndex(users, username) ==
    IF \E j \in 1..Len(users) : users[j].Username = username
    THEN CHOOSE j \in 1..Len(users) :
            /\ users[j].Username = username
            /\ \A k \in 1..(j - 1) : users[k].Username # username
    ELSE 0

FindUserAuths(c, serverURL) ==
    IF ServerIndex(c, serverURL) = 0 THEN <<>>
    ELSE c.Servers[ServerIndex(c, serverURL)].Users

\* an upsert that never looks for the username
SetUserAuthAlwaysAppends(c, url, auth) ==
    LET i == ServerIndex(c, url) IN
    IF i = 0
    THEN [c EXCEPT !.Servers =
            Append(@, AuthServer(url, <<auth>>, "", "", auth.Username))]
    ELSE [c EXCEPT !.Servers[i].Users = Append(@, auth),
                   !.Servers[i].CurrentUser = auth.Username]

SetUserAuth(c, url, auth) ==
    LET i == ServerIndex(c, url) IN
    IF i = 0
    THEN [c EXCEPT !.Servers =
            Append(@, AuthServer(url, <<auth>>, "", "", auth.Username))]
    ELSE LET j == UserIndex(c.Servers[i].Users, auth.Username) IN
         IF j = 0
         THEN [c EXCEPT !.Servers[i].Users = Append(@, auth),
                        !.Servers[i].CurrentUser = auth.Username]
         ELSE [c EXCEPT !.Servers[i].Users[j] = auth,
                        !.Servers[i].CurrentUser = auth.Username]

\* a lookup that never finds the server
GetOrCreateServerNameAlwaysAppends(c, url, name, kind) ==
    [config |-> [c EXCEPT !.Servers =
                   Append(@, AuthServer(url, <<>>, name, kind, ""))],
     server |-> AuthServer(url, <<>>, name, kind, "")]

\* GetOrCreateServerName: the config afterwards and the *AuthServer handed
\* back, which is a copy of the store's entry (&s of the range variable, or
\* the struct that was appended by value)
GetOrCreateServerName(c, url, name, kind) ==
    LET i == ServerIndex(c, url) IN
    IF i = 0
    THEN [config |-> [c EXCEPT !.Servers =
                        Append(@, AuthServer(url, <<>>, name, kind, ""))],
          server |-> AuthServer(url, <<>>, name, kind, "")]
    ELSE [config |-> c, server |-> c.Servers[i]]

GetOrCreateServer(c, url) ==
    IF url = "github.com"
    THEN GetOrCreateServerName(c, url, "GitHub", "github")
    ELSE GetOrCreateServerName(c, url, "", "")

\* SaveUserAuth that leaves DefaultUsername and the pipeline user alone
SaveUserAuthConfigOnlySets(c, url, userAuth) ==
    [SetUserAuth(c, url, userAuth) EXCEPT !.CurrentServer = url]

\* GenericAuthConfigService.SaveUserAuth up to the call of the saver
SaveUserAuthConfig(c, url, userAuth) ==
    LET c1 == SetUserAuth(c, url, userAuth)
        c2 == IF userAuth.Username # ""
              THEN [c1 EXCEPT !.DefaultUsername = userAuth.Username] ELSE c1
        c3 == IF c2.PipeLineUsername = ""
              THEN [c2 EXCEPT !.PipeLineUsername = userAuth.Username,
                              !.PipeLineServer = url]
              ELSE c2
    IN [c3 EXCEPT !.CurrentServer = url]

(***************************************************************************)
(* History of the SaveUserAuth calls                                       *)
(***************************************************************************)

NoSave == [url |-> "", user |-> "", none |-> TRUE]

InitHist ==
    [calls |-> 0, ok |-> 0, failed |-> FALSE, first |-> NoSave, resolves |-> 0]

RecordSave(h, url, userAuth, saveOk) ==
    [resolves |-> h.resolves,
     calls |-> h.calls + 1,
     ok |-> IF saveOk THEN h.ok + 1 ELSE h.ok,
     failed |-> h.failed \/ ~saveOk,
     first |-> IF h.calls = 0
               THEN [url |-> url, user |-> userAuth.Username, none |-> FALSE]
               ELSE h.first]

NoResult == [op |-> "none"]

(***************************************************************************)
(* Operations of the credential store                                      *)
(***************************************************************************)

\* authConfigSvc.SaveUserAuth(url, userAuth); the saver may fail
SaveUserAuth(url, userAuth, saveOk) ==
    /\ hist.calls < MaxSaves
    /\ config' = SaveUserAuthConfig(config, url, userAuth)
    /\ saved' = IF saveOk THEN config' ELSE saved
    /\ hist' = RecordSave(hist, url, userAuth, saveOk)
    /\ result' = [op |-> "save", err |-> IF saveOk THEN "" ELSE "save failed",
                  url |-> url, user |-> userAuth]

(***************************************************************************)
(* The provider factory and the credential resolver (package gits)         *)
(***************************************************************************)

NoProvider == [none |-> TRUE]

Provider(adapter, server, user) ==
    [none |-> FALSE, kind |-> adapter, user |-> user, url |-> server.URL]

\* CreateProvider with GitLab as the fall-through adapter
CreateProviderDefaultGitlab(server, user) ==
    IF server.Kind = KindBitBucketCloud
       \/ (server.Kind = "" /\ HasBitbucketOrgPrefix(server.URL))
    THEN Provider(KindBitBucketCloud, server, user)
    ELSE IF server.Kind = KindBitBucketServer
    THEN Provider(KindBitBucketServer, server, user)
    ELSE IF server.Kind = KindGitea
    THEN Provider(KindGitea, server, user)
    ELSE Provider(KindGitlab, server, user)

\* CreateProvider: which constructor the dispatch calls
CreateProvider(server, user) ==
    IF server.Kind = KindBitBucketCloud
       \/ (server.Kind = "" /\ HasBitbucketOrgPrefix(server.URL))
    THEN Provider(KindBitBucketCloud, server, user)
    ELSE IF server.Kind = KindBitBucketServer
    THEN Provider(KindBitBucketServer, server, user)
    ELSE IF server.Kind = KindGitea
    THEN Provider(KindGitea, server, user)
    ELSE IF server.Kind = KindGitlab
    THEN Provider(KindGitlab, server, user)
    ELSE Provider(KindGitHub, server, user)

\* the survey fails (interrupt, end of input)
NoAnswers == [err |-> TRUE, username |-> "", token |-> ""]

\* answers of the interactive collaborator to one survey
Answers ==
    [err : {FALSE}, username : PromptNames, token : PromptTokens]
    \cup {NoAnswers}

\* AuthConfig.EditUserAuth, the interactive survey: the user name is asked
\* only when none can be defaulted, the API token always
EditUserAuth(c, auth, defaultUserName, editUser, answers) ==
    LET defaultUsername ==
            IF c.DefaultUsername = "" THEN defaultUserName ELSE c.DefaultUsername
        a1 == IF auth.Username = ""
              THEN [auth EXCEPT !.Username = defaultUsername] ELSE auth
        askUser == editUser \/ a1.Username = ""
        qs == (IF askUser THEN <<"username">> ELSE <<>>) \o <<"apiToken">>
    IN IF answers.err
       THEN [err |-> "prompt failed", auth |-> a1, asked |-> qs]
       ELSE [err |-> "",
             auth |-> [a1 EXCEPT !.Username = IF askUser THEN answers.username ELSE @,
                                 !.ApiToken = answers.token],
             asked |-> qs]

\* AuthConfig.EditUserAuth with batchMode set: no survey, an error
EditUserAuthBatchMode(auth) ==
    [err |-> "no credentials available", auth |-> auth, asked |-> <<>>]

\* createUserForServer that does not hand batchMode on to EditUserAuth
createUserForServerAlwaysAsks(batchMode, c, server, answers, saveOk) ==
    LET edit == EditUserAuth(c, NoAuth, "", FALSE, answers)
    IN IF edit.err # ""
       THEN [err |-> edit.err, auth |-> edit.auth, config |-> c,
             asked |-> edit.asked, saveCalled |-> FALSE]
       ELSE LET c1 == SaveUserAuthConfig(c, server.URL, edit.auth) IN
            [err |-> IF ~saveOk THEN "failed to store git auth configuration"
                     ELSE IF IsInvalid(edit.auth)
                     THEN "you did not properly define the user authentication"
                     ELSE "",
             auth |-> edit.auth, config |-> c1,
             asked |-> edit.asked, saveCalled |-> TRUE]

\* createUserForServer: the credential, the error, the config afterwards
createUserForServer(batchMode, c, server, answers, saveOk) ==
    LET edit == IF batchMode THEN EditUserAuthBatchMode(NoAuth)
                ELSE EditUserAuth(c, NoAuth, "", FALSE, answers)
    IN IF edit.err # ""
       THEN [err |-> edit.err, auth |-> edit.auth, config |-> c,
             asked |-> edit.asked, saveCalled |-> FALSE]
       ELSE LET c1 == SaveUserAuthConfig(c, server.URL, edit.auth) IN
            [err |-> IF ~saveOk THEN "failed to store git auth configuration"
                     ELSE IF IsInvalid(edit.auth)
                     THEN "you did not properly define the user authentication"
                     ELSE "",
             auth |-> edit.auth, config |-> c1,
             asked |-> edit.asked, saveCalled |-> TRUE]

\* what one CreateProviderForURL call does: the config it leaves, the
\* provider and error it returns, the server.Kind it dispatched on, where the
\* credential came from, the questions asked and the environment reads made
Outcome(c, server, provider, err, source, asked, lookups, saveCalled, auth) ==
    [config |-> c, kind |-> server.Kind,
     provider |-> provider, err |-> err, source |-> source,
     asked |-> asked, envReads |-> lookups, saveCalled |-> saveCalled,
     auth |-> auth]

\* one os.Getenv round of CreateAuthUserFromEnvironment, as the call saw it
EnvRead(env, prefix) ==
    [prefix |-> prefix, auth |-> CreateAuthUserFromEnvironment(env, prefix)]

\* the environment part with the GIT prefix tried before the kind's prefix
EnvironmentOutcomeGitFirst(c, server, env) ==
    LET kind == server.Kind
        kindAuth == CreateAuthUserFromEnvironment(env, ToUpper(kind))
        gitAuth == CreateAuthUserFromEnvironment(env, "GIT")
        kindRead == IF kind # "" THEN <<EnvRead(env, ToUpper(kind))>> ELSE <<>>
    IN IF ~IsInvalid(gitAuth)
       THEN Outcome(c, server, CreateProvider(server, gitAuth), "", "env", <<>>,
                    <<EnvRead(env, "GIT")>>, FALSE, gitAuth)
       ELSE IF kind # "" /\ ~IsInvalid(kindAuth)
       THEN Outcome(c, server, CreateProvider(server, kindAuth), "", "env", <<>>,
                    <<EnvRead(env, "GIT")>> \o kindRead, FALSE, kindAuth)
       ELSE Outcome(c, server, NoProvider, "", "none", <<>>,
                    <<EnvRead(env, "GIT")>> \o kindRead, FALSE, NoAuth)

\* the environment part of CreateProviderForURL, taken when nothing is stored
EnvironmentOutcome(c, server, env) ==
    LET kind == server.Kind
        kindAuth == CreateAuthUserFromEnvironment(env, ToUpper(kind))
        gitAuth == CreateAuthUserFromEnvironment(env, "GIT")
        kindRead == IF kind # "" THEN <<EnvRead(env, ToUpper(kind))>> ELSE <<>>
    IN IF kind # "" /\ ~IsInvalid(kindAuth)
       THEN Outcome(c, server, CreateProvider(server, kindAuth), "", "env", <<>>,
                    kindRead, FALSE, kindAuth)
       ELSE IF ~IsInvalid(gitAuth)
       THEN Outcome(c, server, CreateProvider(server, gitAuth), "", "env", <<>>,
                    kindRead \o <<EnvRead(env, "GIT")>>, FALSE, gitAuth)
       ELSE Outcome(c, server, NoProvider, "", "none", <<>>,
                    kindRead \o <<EnvRead(env, "GIT")>>, FALSE, NoAuth)

\* which of the stored credentials CreateProviderForURL hands to the factory
StoredUserAuth(server, userAuths) == userAuths[1]

CreateProviderForURLOutcome(c, gitKind, hostUrl, batchMode, env, answers, saveOk) ==
    LET got == GetOrCreateServer(c, hostUrl)
        server == IF gitKind # "" THEN [got.server EXCEPT !.Kind = gitKind]
                  ELSE got.server
        userAuths == FindUserAuths(got.config, server.URL)
        fromEnv == EnvironmentOutcome(got.config, server, env)
    IN IF Len(userAuths) = 0 /\ fromEnv.source = "env"
       THEN fromEnv
       ELSE IF Len(userAuths) > 0
       THEN Outcome(got.config, server,
                    CreateProvider(server, StoredUserAuth(server, userAuths)),
                    "", "stored", <<>>, <<>>, FALSE,
                    StoredUserAuth(server, userAuths))
       ELSE LET made == createUserForServer(batchMode, got.config, server,
                                            answers, saveOk)
            IN Outcome(made.config, server,
                       IF made.err # "" THEN NoProvider
                       ELSE CreateProvider(server, made.auth),
                       made.err, "prompt", made.asked, fromEnv.envReads,
                       made.saveCalled, made.auth)

\* what the call saw before it ran
PreState(c, url) ==
    [userAuths |-> FindUserAuths(c, url),
     storedKind |-> IF ServerIndex(c, url) = 0 THEN ""
                    ELSE c.Servers[ServerIndex(c, url)].Kind,
     currentUser |-> IF ServerIndex(c, url) = 0 THEN ""
                     ELSE c.Servers[ServerIndex(c, url)].CurrentUser,
     defaultUsername |-> c.DefaultUsername,
     pipeLineUsername |-> c.PipeLineUsername,
     saveCalls |-> hist.calls]

\* Inputs a call never reads are held at one value, so that each call is
\* generated once: the environment is read only when nothing is stored, the
\* interactive collaborator and the saver are reached only when neither the
\* store nor the environment has a credential (and, for the survey, outside
\* batch mode).
EmptyEnv == EnvWith(UserAuth("envkind", "", ""), NoAuth)

EnvsRead(gitKind, hostUrl) ==
    IF Len(FindUserAuths(config, hostUrl)) > 0 THEN {EmptyEnv} ELSE Envs

AnswersRead(gitKind, hostUrl, batchMode, env) ==
    IF CreateProviderForURLOutcome(config, gitKind, hostUrl, batchMode,
                                   env, NoAnswers, TRUE).source = "prompt"
       /\ ~batchMode
    THEN Answers ELSE {NoAnswers}

SaverRead(gitKind, hostUrl, batchMode, env, answers) ==
    IF CreateProviderForURLOutcome(config, gitKind, hostUrl, batchMode,
                                   env, answers, TRUE).saveCalled
    THEN BOOLEAN ELSE {TRUE}

CreateProviderForURL(gitKind, hostUrl, batchMode, env, answers, saveOk) ==
    LET out == CreateProviderForURLOutcome(config, gitKind, hostUrl, batchMode,
                                           env, answers, saveOk)
    IN /\ hist.resolves < MaxResolves
       /\ out.saveCalled => hist.calls < MaxSaves
       /\ config' = out.config
       /\ saved' = IF out.saveCalled /\ saveOk THEN out.config ELSE saved
       /\ hist' = [(IF out.saveCalled
                    THEN RecordSave(hist, hostUrl, out.auth, saveOk) ELSE hist)
                      EXCEPT !.resolves = @ + 1]
       /\ result' = [op |-> "resolve", err |-> out.err, provider |-> out.provider,
                     source |-> out.source, asked |-> out.asked,
                     envReads |-> out.envReads, auth |-> out.auth,
                     saveCalled |-> out.saveCalled,
                     saveOk |-> out.saveCalled /\ saveOk,
                     gitKind |-> gitKind, url |-> hostUrl, batchMode |-> batchMode,
                     kind |-> out.kind,
                     pre |-> PreState(config, hostUrl)]

InitStore ==
    /\ config = EmptyConfig
    /\ saved = NoConfig
    /\ result = NoResult
    /\ hist = InitHist

FakeOrgs == {"acme", "other"}

\* GitFakeProvider.Organisations: no entry for an organisation is nil
NoOrganisation == [none |-> TRUE]

HookBackends == {"gitea", "fake", "bitbucketcloud"}

InitAdapters ==
    /\ rb = [pc |-> "idle"]
    /\ repos = {}
    /\ vr = [op |-> "none"]
    /\ pg = [pc |-> "idle"]
    /\ fake = [org \in FakeOrgs |-> NoOrganisation]
    /\ pr = [active |-> FALSE]
    /\ wh = [hooks |-> [b \in HookBackends |-> <<>>], last |-> [op |-> "none"]]
    /\ ar = [op |-> "none"]

InitAuth == InitStore /\ InitAdapters

NextAuth ==
    \/ \E url \in Urls, a \in Creds, ok \in BOOLEAN :
          SaveUserAuth(url, a, ok) /\ UNCHANGED <<adapterVars, ar>>
    \/ /\ hist.resolves < MaxResolves
       /\ UNCHANGED <<adapterVars, ar>>
       /\ \E k \in GitKinds, url \in Urls, b \in BOOLEAN :
            \E env \in EnvsRead(k, url) :
              \E ans \in AnswersRead(k, url, b, env) :
                \E ok \in SaverRead(k, url, b, env, ans) :
                  CreateProviderForURL(k, url, b, env, ans, ok)

SpecAuth == InitAuth /\ [][NextAuth]_vars

(***************************************************************************)
(* The resolver with an interactive collaborator that validates nothing    *)
(***************************************************************************)

\* what the secret prompt of the interactive collaborator may hand back: the
\* prompt takes a message and no validator
SecretTexts == PromptTokens \cup {""}

AnswersEntered ==
    [err : {FALSE}, username : PromptNames, token : SecretTexts]
    \cup {NoAnswers}

AnswersEnteredRead(gitKind, hostUrl, batchMode, env) ==
    IF CreateProviderForURLOutcome(config, gitKind, hostUrl, batchMode,
                                   env, NoAnswers, TRUE).source = "prompt"
       /\ ~batchMode
    THEN AnswersEntered ELSE {NoAnswers}

NextPrompt ==
    \/ \E url \in Urls, a \in Creds, ok \in BOOLEAN :
          SaveUserAuth(url, a, ok) /\ UNCHANGED <<adapterVars, ar>>
    \/ /\ hist.resolves < MaxResolves
       /\ UNCHANGED <<adapterVars, ar>>
       /\ \E k \in GitKinds, url \in Urls, b \in BOOLEAN :
            \E env \in EnvsRead(k, url) :
              \E ans \in AnswersEnteredRead(k, url, b, env) :
                \E ok \in SaverRead(k, url, b, env, ans) :
                  CreateProviderForURL(k, url, b, env, ans, ok)

SpecPrompt == InitAuth /\ [][NextPrompt]_vars

(***************************************************************************)
(* The credential store under create, upsert and delete                    *)
(***************************************************************************)

\* the URLs of the servers of a config, in store order
ServerURLs(c) == [i \in 1..Len(c.Servers) |-> c.Servers[i].URL]

\* what a store operation saw before it ran
StorePre(c) == [urls |-> ServerURLs(c), CurrentServer |-> c.CurrentServer]

\* a delete that never selects another server
DeleteServerClearsCurrent(c, url) ==
    LET IsOther(s) == s.URL # url
        rest == SelectSeq(c.Servers, IsOther)
    IN  [c EXCEPT !.Servers = rest,
                  !.CurrentServer = IF c.CurrentServer = url THEN "" ELSE @]

\* AuthConfig.DeleteServer: the server leaves the list; when it was the
\* current server, the first remaining server becomes current, and none is
\* current when none remains
DeleteServerConfig(c, url) ==
    LET IsOther(s) == s.URL # url
        rest == SelectSeq(c.Servers, IsOther)
    IN  [c EXCEPT !.Servers = rest,
                  !.CurrentServer = IF c.CurrentServer # url THEN @
                                    ELSE IF Len(rest) > 0 THEN rest[1].URL
                                    ELSE ""]

\* the credentials the callers of the store set
StoreCreds == {UserAuth("alice", "tok", ""), UserAuth("bob", "tok", "")}

\* GenericAuthConfigService.DeleteServer: delete, then save
DeleteServer(url, saveOk) ==
    /\ config' = DeleteServerConfig(config, url)
    /\ saved' = IF saveOk THEN config' ELSE saved
    /\ result' = [op |-> "delete", url |-> url,
                  err |-> IF saveOk THEN "" ELSE "save failed",
                  pre |-> StorePre(config)]
    /\ UNCHANGED <<hist, adapterVars, ar>>

\* a caller makes a server the current one (c.CurrentServer = url)
SetCurrentServer(url) ==
    /\ ServerIndex(config, url) # 0
    /\ config' = [config EXCEPT !.CurrentServer = url]
    /\ result' = [op |-> "setCurrent", url |-> url]
    /\ UNCHANGED <<saved, hist, adapterVars, ar>>

\* a caller of the store asks for the server of a URL
GetOrCreateServerCall(url) ==
    /\ config' = GetOrCreateServer(config, url).config
    /\ result' = [op |-> "getOrCreate", url |-> url,
                  server |-> GetOrCreateServer(config, url).server,
                  pre |-> StorePre(config)]
    /\ UNCHANGED <<saved, hist, adapterVars, ar>>

\* a caller of the store sets a credential
SetUserAuthCall(url, auth) ==
    /\ config' = SetUserAuth(config, url, auth)
    /\ result' = [op |-> "set", url |-> url, user |-> auth]
    /\ UNCHANGED <<saved, hist, adapterVars, ar>>

NextStore ==
    \/ \E url \in Urls : GetOrCreateServerCall(url)
    \/ \E url \in Urls, a \in StoreCreds : SetUserAuthCall(url, a)
    \/ \E url \in Urls : SetCurrentServer(url)
    \/ \E url \in Urls, ok \in BOOLEAN : DeleteServer(url, ok)

SpecStore == InitAuth /\ [][NextStore]_vars

(***************************************************************************)
(* The validity check on every kind of credential                          *)
(***************************************************************************)

\* what a field of a credential may hold: nothing, or some text
FieldValues == {"", "alice", "bob", "tok", "bearer"}

AllUserAuths ==
    {UserAuth(u, t, b) : u \in FieldValues, t \in FieldValues,
                         b \in FieldValues}

\* a caller asks whether a credential is invalid
IsInvalidCall(a) ==
    /\ result' = [op |-> "isInvalid", auth |-> a, invalid |-> IsInvalid(a)]
    /\ UNCHANGED <<config, saved, hist, adapterVars, ar>>

NextCredential == \E a \in AllUserAuths : IsInvalidCall(a)

SpecCredential == InitAuth /\ [][NextCredential]_vars

(***************************************************************************)
(* The provider factory on every kind of server                            *)
(***************************************************************************)

KindGitFake == "fakegit"

\* the kinds a stored server may carry: unset, the kinds of the dispatch, and
\* one no dispatch knows
ServerKinds == {"", KindGitHub, KindGitlab, KindGitea, KindBitBucketCloud,
                KindBitBucketServer, KindGitFake, "gerrit"}

ServerUrls == Urls \cup {"https://gitlab.example.com"}

\* GetProviderConstructor: the constructor picked for the server's Kind
GetProviderConstructor(server) ==
    IF server.Kind = KindBitBucketCloud THEN KindBitBucketCloud
    ELSE IF server.Kind = KindBitBucketServer THEN KindBitBucketServer
    ELSE IF server.Kind = KindGitea THEN KindGitea
    ELSE IF server.Kind = KindGitlab THEN KindGitlab
    ELSE IF server.Kind = KindGitFake THEN KindGitFake
    ELSE KindGitHub

\* a caller builds a provider for a server and one of its users
CreateProviderCall(server, user) ==
    /\ result' = [op |-> "createProvider", fn |-> "CreateProvider",
                  server |-> server, user |-> user,
                  adapter |-> CreateProvider(server, user).kind]
    /\ UNCHANGED <<config, saved, hist, adapterVars, ar>>

\* a caller asks for the constructor and applies it
GetProviderConstructorCall(server, user) ==
    /\ result' = [op |-> "createProvider", fn |-> "GetProviderConstructor",
                  server |-> server, user |-> user,
                  adapter |-> GetProviderConstructor(server)]
    /\ UNCHANGED <<config, saved, hist, adapterVars, ar>>

NextFactory ==
    \/ \E kind \in ServerKinds, url \in ServerUrls, user \in Creds :
          CreateProviderCall(AuthServer(url, <<user>>, "", kind,
                                        user.Username), user)
    \/ \E kind \in ServerKinds, url \in ServerUrls, user \in Creds :
          GetProviderConstructorCall(AuthServer(url, <<user>>, "", kind,
                                                user.Username), user)

SpecFactory == InitAuth /\ [][NextFactory]_vars

(***************************************************************************)
(* Read-back after create pull request and fork (Bitbucket Cloud, Server)  *)
(***************************************************************************)

\* for i := 0; i < 30; i++
MaxAttempts == 30

\* time.Sleep(2 * time.Second)
SleepSeconds == 2

CloudOps == {"CloudProvider.ForkRepository", "CloudProvider.CreatePullRequest"}

ServerOps == {"ServerProvider.ForkRepository", "ServerProvider.CreatePullRequest"}

ReadBackOps == CloudOps \cup ServerOps

\* what the call hands back: the record built from the create response, the
\* record built from the read-back response, or nil
NoReturn == [value |-> "none", err |-> FALSE]

ReturnCreateError == [value |-> "nil", err |-> TRUE]

\* the loop condition of a wrong bound, one iteration too many
LoopContinuesInclusive(i) == i <= MaxAttempts

\* the condition of the read-back loop
LoopContinues(i) == i < MaxAttempts

\* the adapters all surface the last read error
ReturnValueSurfacesError(op, err) ==
    IF err THEN [value |-> "nil", err |-> TRUE]
    ELSE [value |-> "refreshed", err |-> FALSE]

\* the statements after the read-back loop: the cloud adapter converts the
\* create response whatever the read-back said, the server adapter returns
\* the last read error or converts the read-back response
ReturnValue(op, err) ==
    IF op \in CloudOps THEN [value |-> "created", err |-> FALSE]
    ELSE IF err THEN [value |-> "nil", err |-> TRUE]
    ELSE [value |-> "refreshed", err |-> FALSE]

\* a step that issues the mutating vendor call again
MutatingCallsEveryStep(step) == 1

\* the mutating vendor calls a step of the call issues: the create request
\* stands before the loop, the loop body holds a read only
MutatingCalls(step) == IF step = "create" THEN 1 ELSE 0

\* the caller invokes fork or create pull request
ReadBackCall(op) ==
    /\ rb.pc \in {"idle", "done"}
    /\ rb' = [pc |-> "create", op |-> op, i |-> 0, created |-> FALSE,
              creates |-> 0, reads |-> 0, waited |-> 0, err |-> FALSE, firstOk |-> 0,
              ret |-> NoReturn]
    /\ UNCHANGED <<authVars, ar, wh, pr, fake, repos, vr, pg>>

\* the create request; a failure is returned at once
Create(ok) ==
    /\ rb.pc = "create"
    /\ rb' = IF ok
             THEN [rb EXCEPT !.created = TRUE,
                             !.creates = @ + MutatingCalls("create"),
                             !.pc = IF rb.op \in CloudOps THEN "read"
                                    ELSE "loop"]
             ELSE [rb EXCEPT !.err = TRUE, !.pc = "done",
                             !.creates = @ + MutatingCalls("create"),
                             !.ret = ReturnCreateError]
    /\ UNCHANGED <<authVars, ar, wh, pr, fake, repos, vr, pg>>

\* the cloud adapter's read before the loop
CloudFirstRead(ok) ==
    /\ rb.pc = "read"
    /\ rb' = [rb EXCEPT !.reads = @ + 1, !.err = ~ok,
                        !.creates = @ + MutatingCalls("read"),
                        !.firstOk = IF ok THEN rb.reads + 1 ELSE 0,
                        !.pc = IF ok THEN "return" ELSE "loop"]
    /\ UNCHANGED <<authVars, ar, wh, pr, fake, repos, vr, pg>>

\* one iteration of the cloud adapter's loop: read, break or sleep
CloudRetry(ok) ==
    /\ rb.pc = "loop"
    /\ rb.op \in CloudOps
    /\ LoopContinues(rb.i)
    /\ rb' = IF ok
             THEN [rb EXCEPT !.reads = @ + 1, !.err = FALSE,
                             !.creates = @ + MutatingCalls("retry"),
                             !.firstOk = rb.reads + 1, !.pc = "return"]
             ELSE [rb EXCEPT !.reads = @ + 1, !.err = TRUE,
                             !.creates = @ + MutatingCalls("retry"),
                             !.waited = @ + SleepSeconds, !.i = @ + 1]
    /\ UNCHANGED <<authVars, ar, wh, pr, fake, repos, vr, pg>>

\* one iteration of the server adapter's loop: sleep, read, break or go on
ServerRetry(ok) ==
    /\ rb.pc = "loop"
    /\ rb.op \in ServerOps
    /\ LoopContinues(rb.i)
    /\ rb' = IF ok
             THEN [rb EXCEPT !.waited = @ + SleepSeconds, !.reads = @ + 1,
                             !.creates = @ + MutatingCalls("retry"),
                             !.err = FALSE, !.firstOk = rb.reads + 1,
                             !.pc = "return"]
             ELSE [rb EXCEPT !.waited = @ + SleepSeconds, !.reads = @ + 1,
                             !.creates = @ + MutatingCalls("retry"),
                             !.err = TRUE, !.i = @ + 1]
    /\ UNCHANGED <<authVars, ar, wh, pr, fake, repos, vr, pg>>

\* the loop condition fails: the attempts are used up
LoopExhausted ==
    /\ rb.pc = "loop"
    /\ ~LoopContinues(rb.i)
    /\ rb' = [rb EXCEPT !.pc = "return"]
    /\ UNCHANGED <<authVars, ar, wh, pr, fake, repos, vr, pg>>

\* the statements after the loop
ReadBackReturn ==
    /\ rb.pc = "return"
    /\ rb' = [rb EXCEPT !.pc = "done", !.ret = ReturnValue(rb.op, rb.err)]
    /\ UNCHANGED <<authVars, ar, wh, pr, fake, repos, vr, pg>>

NextRetry ==
    \/ \E op \in ReadBackOps : ReadBackCall(op)
    \/ \E ok \in BOOLEAN : Create(ok)
    \/ \E ok \in BOOLEAN : CloudFirstRead(ok)
    \/ \E ok \in BOOLEAN : CloudRetry(ok)
    \/ \E ok \in BOOLEAN : ServerRetry(ok)
    \/ LoopExhausted
    \/ ReadBackReturn

SpecRetry == InitAuth /\ [][NextRetry]_vars

(***************************************************************************)
(* GitHubProvider.ForkRepository: wait for a fork that is still being made *)
(***************************************************************************)

\* time.Sleep(5 * time.Second)
ForkSleepSeconds == 5

\* deadline := start.Add(time.Minute)
ForkDeadlineSeconds == 60

\* CreateFork succeeds, fails with "try again later", or fails otherwise
CreateForkOutcomes == {"ok", "try again later", "error"}

GitHubFork == "GitHubProvider.ForkRepository"

\* the caller invokes the fork
GitHubForkCall ==
    /\ rb.pc \in {"idle", "done"}
    /\ rb' = [pc |-> "createFork", op |-> GitHubFork, i |-> 0,
              created |-> FALSE, creates |-> 0, reads |-> 0, waited |-> 0,
              err |-> FALSE, firstOk |-> 0, ret |-> NoReturn]
    /\ UNCHANGED <<authVars, ar, wh, pr, fake, repos, vr, pg>>

\* Repositories.CreateFork: any error but "try again later" is returned
CreateFork(outcome) ==
    /\ rb.pc = "createFork"
    /\ rb' = CASE outcome = "ok" ->
                    [rb EXCEPT !.created = TRUE, !.pc = "done",
                               !.creates = @ + MutatingCalls("create"),
                               !.ret = [value |-> "created", err |-> FALSE]]
               [] outcome = "try again later" ->
                    [rb EXCEPT !.err = TRUE, !.pc = "wait",
                               !.creates = @ + MutatingCalls("create")]
               [] OTHER ->
                    [rb EXCEPT !.err = TRUE, !.pc = "done",
                               !.creates = @ + MutatingCalls("create"),
                               !.ret = ReturnCreateError]
    /\ UNCHANGED <<authVars, ar, wh, pr, fake, repos, vr, pg>>

\* one iteration of the wait: sleep, Repositories.Get, break when the
\* repository is there, give up when the clock is past the deadline (the
\* time the read takes decides it when the sleeps alone add up to the
\* deadline)
ForkWait(ok, late) ==
    /\ rb.pc = "wait"
    /\ LET elapsed == rb.waited + ForkSleepSeconds
           after == \/ elapsed > ForkDeadlineSeconds
                    \/ elapsed = ForkDeadlineSeconds /\ late
       IN rb' = IF ok
                THEN [rb EXCEPT !.waited = elapsed, !.reads = @ + 1,
                                !.creates = @ + MutatingCalls("retry"),
                                !.err = FALSE, !.firstOk = rb.reads + 1,
                                !.pc = "done",
                                !.ret = [value |-> "refreshed", err |-> FALSE]]
                ELSE IF after
                THEN [rb EXCEPT !.waited = elapsed, !.reads = @ + 1,
                                !.creates = @ + MutatingCalls("retry"),
                                !.err = TRUE, !.pc = "done",
                                !.ret = [value |-> "nil", err |-> TRUE]]
                ELSE [rb EXCEPT !.waited = elapsed, !.reads = @ + 1,
                                !.creates = @ + MutatingCalls("retry"),
                                !.err = TRUE]
    /\ UNCHANGED <<authVars, ar, wh, pr, fake, repos, vr, pg>>

NextMutate ==
    \/ NextRetry
    \/ GitHubForkCall
    \/ \E outcome \in CreateForkOutcomes : CreateFork(outcome)
    \/ \E ok \in BOOLEAN, late \in BOOLEAN : ForkWait(ok, late)

SpecMutate == InitAuth /\ [][NextMutate]_vars

(***************************************************************************)
(* ValidateRepositoryName on each back end                                 *)
(***************************************************************************)

Orgs == {"acme"}

RepoNames == {"widgets", "gadgets"}

Backends == {"bitbucketcloud", "bitbucketserver", "github", "gitea",
             "gitlab", "gerrit"}

\* what goes wrong with the vendor request: nothing, the vendor answers with
\* a server error, or no answer arrives at all
Faults == {"none", "status500", "noResponse"}

\* what the vendor would say about the repository
VendorOutcome(rs, org, name, fault) ==
    IF fault # "none" THEN "error"
    ELSE IF <<org, name>> \in rs THEN "found"
    ELSE "notFound"

\* the response and error of the vendor client's repository fetch
GetRepository(rs, org, name, fault) ==
    CASE fault = "status500" ->
           [response |-> TRUE, StatusCode |-> 500, err |-> TRUE,
            Error |-> "500 Internal Server Error"]
      [] fault = "noResponse" ->
           [response |-> FALSE, StatusCode |-> 0, err |-> TRUE,
            Error |-> "connection refused"]
      [] OTHER ->
           IF <<org, name>> \in rs
           THEN [response |-> TRUE, StatusCode |-> 200, err |-> FALSE,
                 Error |-> ""]
           ELSE [response |-> TRUE, StatusCode |-> 404, err |-> TRUE,
                 Error |-> "404 Not Found"]

\* strings.Contains(err.Error(), "404")
Contains404(msg) == msg \in {"404 Not Found"}

\* GitlabProvider.projectId: list the repositories, look for the name
projectId(rs, org, name, fault) ==
    IF fault # "none" THEN [pid |-> "", err |-> TRUE]
    ELSE IF <<org, name>> \in rs THEN [pid |-> name, err |-> FALSE]
    ELSE [pid |-> "", err |-> TRUE]

\* the returned error: "ok" is nil, "panic" a nil dereference
ValidateBitbucket(r) ==
    IF r.response /\ r.StatusCode = 404 THEN "ok"
    ELSE IF ~r.err THEN "already exists"
    ELSE "vendor error"

ValidateGitHub(r) ==
    IF ~r.err THEN "already exists"
    ELSE IF ~r.response THEN "panic"
    ELSE IF r.StatusCode = 404 THEN "ok"
    ELSE "vendor error"

ValidateGitea(r) ==
    IF ~r.err THEN "already exists"
    ELSE IF Contains404(r.Error) THEN "ok"
    ELSE "vendor error"

ValidateGitlab(p) == IF ~p.err THEN "already exists" ELSE "ok"

ValidateGerrit == "ok"

ValidateRepositoryNameResult(backend, rs, org, name, fault) ==
    CASE backend \in {"bitbucketcloud", "bitbucketserver"} ->
           ValidateBitbucket(GetRepository(rs, org, name, fault))
      [] backend = "github" ->
           ValidateGitHub(GetRepository(rs, org, name, fault))
      [] backend = "gitea" ->
           ValidateGitea(GetRepository(rs, org, name, fault))
      [] backend = "gitlab" ->
           ValidateGitlab(projectId(rs, org, name, fault))
      [] OTHER -> ValidateGerrit

ValidateRepositoryName(backend, org, name, fault) ==
    /\ vr' = [op |-> "validate", backend |-> backend, org |-> org,
              name |-> name, fault |-> fault,
              vendor |-> VendorOutcome(repos, org, name, fault),
              ret |-> ValidateRepositoryNameResult(backend, repos, org,
                                                   name, fault)]
    /\ UNCHANGED <<authVars, ar, wh, pr, fake, rb, repos, pg>>

\* the vendor creates the repository unless it has one of that name
CreateRepository(org, name) ==
    /\ repos' = repos \cup {<<org, name>>}
    /\ vr' = [op |-> "create", org |-> org, name |-> name,
              err |-> <<org, name>> \in repos]
    /\ UNCHANGED <<authVars, ar, wh, pr, fake, rb, pg>>

DeleteRepository(org, name) ==
    /\ repos' = repos \ {<<org, name>>}
    /\ vr' = [op |-> "delete", org |-> org, name |-> name,
              err |-> <<org, name>> \notin repos]
    /\ UNCHANGED <<authVars, ar, wh, pr, fake, rb, pg>>

NextValidate ==
    \/ \E b \in Backends, org \in Orgs, name \in RepoNames, f \in Faults :
          ValidateRepositoryName(b, org, name, f)
    \/ \E org \in Orgs, name \in RepoNames : CreateRepository(org, name)
    \/ \E org \in Orgs, name \in RepoNames : DeleteRepository(org, name)

SpecValidate == InitAuth /\ [][NextValidate]_vars

(***************************************************************************)
(* Paginated list operations                                               *)
(***************************************************************************)

MaxPages == 3

MaxPageSize == 2

MaxFetches == 4

ListOps == {"CloudProvider.ListOrganisations",
            "ServerProvider.ListCommitStatus",
            "BitbucketCloudProvider.ListRepositories"}

\* the items of page p of a back end that serves pages of s items
PageValues(p, s) == [j \in 1..s |-> <<p, j>>]

\* the cursor a page carries: the next page, or 0 on the last one
PageNext(p, k) == IF p < k THEN p + 1 ELSE 0

RECURSIVE AllPages(_, _)
\* the items of pages 1..k in order
AllPages(k, s) == IF k = 0 THEN <<>> ELSE AllPages(k - 1, s) \o PageValues(k, s)

\* the page an iteration asks the vendor for: ListOrganisations follows the
\* cursor of the last page, the other two repeat the request without one
RequestedPage(op, next) ==
    IF op = "CloudProvider.ListOrganisations"
    THEN IF next = 0 THEN 1 ELSE next
    ELSE 1

\* the caller invokes a list operation on a back end of k pages of s items
ListCall(op, k, s) ==
    /\ pg.pc \in {"idle", "done"}
    /\ pg' = [pc |-> "fetch", op |-> op, pages |-> k, size |-> s,
              next |-> 0, fetched |-> <<>>, items |-> <<>>,
              ret |-> [err |-> FALSE, nil |-> TRUE, items |-> <<>>]]
    /\ UNCHANGED <<authVars, ar, wh, pr, fake, rb, repos, vr>>

\* one iteration of the loop: fetch a page, return nil and the error if the
\* fetch fails, append its values, stop after the last page
FetchPage(ok) ==
    /\ pg.pc = "fetch"
    /\ Len(pg.fetched) < MaxFetches
    /\ LET p == RequestedPage(pg.op, pg.next)
           items == pg.items \o PageValues(p, pg.size)
           last == PageNext(p, pg.pages) = 0
       IN  pg' = IF ~ok
                 THEN [pg EXCEPT !.fetched = Append(@, p), !.pc = "done",
                                 !.ret = [err |-> TRUE, nil |-> TRUE,
                                          items |-> <<>>]]
                 ELSE [pg EXCEPT !.fetched = Append(@, p),
                                 !.items = items,
                                 !.next = PageNext(p, pg.pages),
                                 !.pc = IF last THEN "done" ELSE "fetch",
                                 !.ret = IF last
                                         THEN [err |-> FALSE, nil |-> FALSE,
                                               items |-> items]
                                         ELSE @]
    /\ UNCHANGED <<authVars, ar, wh, pr, fake, rb, repos, vr>>

NextList ==
    \/ \E op \in ListOps, k \in 1..MaxPages, s \in 1..MaxPageSize :
          ListCall(op, k, s)
    \/ \E ok \in BOOLEAN : FetchPage(ok)

SpecList == InitAuth /\ [][NextList]_vars

(***************************************************************************)
(* The fake provider (package git)                                         *)
(***************************************************************************)

MaxFakeRepos == 2

FakeOrganisation(names) == [none |-> FALSE, Repositories |-> names]

\* the first index of the name in the repository list, 0 if there is none
RepositoryIndex(names, name) ==
    IF \E n \in 1..Len(names) : names[n] = name
    THEN CHOOSE n \in 1..Len(names) :
           /\ names[n] = name
           /\ \A m \in 1..(n - 1) : names[m] # name
    ELSE 0

\* append(Repositories[0:idx], Repositories[idx+1:]...)
RemoveAt(names, idx) ==
    [n \in 1..(Len(names) - 1) |-> IF n < idx THEN names[n] ELSE names[n + 1]]

\* the organisation is created on demand, the repository is appended
FakeCreateRepository(org, name, private) ==
    /\ ~fake[org].none => Len(fake[org].Repositories) < MaxFakeRepos
    /\ fake' = [fake EXCEPT ![org] =
                  IF fake[org].none THEN FakeOrganisation(<<name>>)
                  ELSE FakeOrganisation(Append(fake[org].Repositories, name))]
    /\ vr' = [op |-> "create", backend |-> "fake", org |-> org,
              name |-> name, ret |-> "ok"]
    /\ UNCHANGED <<authVars, ar, wh, pr, rb, repos, pg>>

FakeGetRepository(org, name) ==
    /\ vr' = [op |-> "get", backend |-> "fake", org |-> org, name |-> name,
              ret |-> IF fake[org].none THEN "not found"
                      ELSE IF RepositoryIndex(fake[org].Repositories, name) = 0
                      THEN "not found"
                      ELSE "ok"]
    /\ UNCHANGED <<authVars, ar, wh, pr, fake, rb, repos, pg>>

FakeDeleteRepository(org, name) ==
    LET idx == IF fake[org].none THEN 0
               ELSE RepositoryIndex(fake[org].Repositories, name)
    IN  /\ fake' = IF idx = 0 THEN fake
                   ELSE [fake EXCEPT ![org] = FakeOrganisation(
                           RemoveAt(fake[org].Repositories, idx))]
        /\ vr' = [op |-> "delete", backend |-> "fake", org |-> org,
                  name |-> name,
                  ret |-> IF idx = 0 THEN "not found" ELSE "ok"]
        /\ UNCHANGED <<authVars, ar, wh, pr, rb, repos, pg>>

\* panic("implement me")
FakeValidateRepositoryName(org, name) ==
    /\ vr' = [op |-> "validate", backend |-> "fake", org |-> org,
              name |-> name, ret |-> "panic"]
    /\ UNCHANGED <<authVars, ar, wh, pr, fake, rb, repos, pg>>

NextFake ==
    \/ \E org \in FakeOrgs, name \in RepoNames, private \in BOOLEAN :
          FakeCreateRepository(org, name, private)
    \/ \E org \in FakeOrgs, name \in RepoNames : FakeGetRepository(org, name)
    \/ \E org \in FakeOrgs, name \in RepoNames :
          FakeDeleteRepository(org, name)
    \/ \E org \in FakeOrgs, name \in RepoNames :
          FakeValidateRepositoryName(org, name)

SpecFake == InitAuth /\ [][NextFake]_vars

(***************************************************************************)
(* The pull-request record and the vendor's pull request                   *)
(***************************************************************************)

PRBackends == {"bitbucketcloud", "gitlab", "gitea"}

\* the vendor's words for an open, a merged and a closed pull request
\* (Gitea has the states open and closed, a merged one is closed)
VendorOpen(backend) ==
    IF backend = "gitlab" THEN "opened"
    ELSE IF backend = "gitea" THEN "open"
    ELSE "OPEN"

VendorMerged(backend) ==
    IF backend = "gitlab" THEN "merged"
    ELSE IF backend = "gitea" THEN "closed"
    ELSE "MERGED"

VendorClosed(backend) ==
    IF backend \in {"gitlab", "gitea"} THEN "closed" ELSE "DECLINED"

\* the pull request as the vendor holds it
VendorPR(state, mergedAt, closedAt) ==
    [State |-> state, MergedAt |-> mergedAt, ClosedAt |-> closedAt]

\* the fields of git.PullRequest that carry its state; MergedAt and ClosedAt
\* say whether the timestamp is set
PullRequest(state, merged, mergedAt, closedAt) ==
    [State |-> state, Merged |-> merged, MergedAt |-> mergedAt,
     ClosedAt |-> closedAt]

\* a conversion that takes a closed merge request for a merged one
fromMergeRequestMergedWhenClosed(mr) ==
    PullRequest(mr.State, mr.MergedAt \/ mr.ClosedAt, mr.MergedAt, mr.ClosedAt)

\* fromMergeRequest: Merged is MergedAt != nil, the rest is copied
fromMergeRequest(mr) ==
    PullRequest(mr.State, mr.MergedAt, mr.MergedAt, mr.ClosedAt)

\* a refresh that flips Merged on every call for a merged pull request
CloudUpdateStatusFlipsMerged(rec, bitbucketPR) ==
    [rec EXCEPT !.State = bitbucketPR.State,
                !.Merged = IF bitbucketPR.State = "MERGED" THEN ~@ ELSE @]

\* CloudProvider.UpdatePullRequestStatus: State is copied, Merged is set
\* when the vendor says MERGED and left alone otherwise
CloudUpdateStatus(rec, bitbucketPR) ==
    [rec EXCEPT !.State = bitbucketPR.State,
                !.Merged = IF bitbucketPR.State = "MERGED" THEN TRUE ELSE @]

\* GiteaProvider.UpdatePullRequestStatus: Merged is HasMerged, MergedAt and
\* State are copied, ClosedAt is left alone
GiteaUpdateStatus(rec, giteaPR) ==
    [rec EXCEPT !.State = giteaPR.State,
                !.Merged = giteaPR.MergedAt,
                !.MergedAt = giteaPR.MergedAt]

\* the record after a refresh that could read the vendor's pull request
RefreshRecord(backend, rec, vendor) ==
    IF backend = "gitlab" THEN fromMergeRequest(vendor)
    ELSE IF backend = "gitea" THEN GiteaUpdateStatus(rec, vendor)
    ELSE CloudUpdateStatus(rec, vendor)

\* no refresh has succeeded since the vendor's pull request last changed
NoStable == [set |-> FALSE]

\* MergePullRequest posts the merge and does not touch the record
MergeRecord(rec) == rec

\* the bookkeeping of one operation on the record
PRStep(op, err, vendor, rec) ==
    [active |-> TRUE, backend |-> pr.backend, vendor |-> vendor, rec |-> rec,
     op |-> op, err |-> err,
     wasOpen |-> pr.rec.State = VendorOpen(pr.backend),
     everMerged |-> pr.everMerged \/ rec.Merged,
     everClosedAt |-> pr.everClosedAt \/ rec.ClosedAt,
     changedBy |-> IF rec.State # pr.rec.State
                   THEN pr.changedBy \cup {op} ELSE pr.changedBy,
     stable |-> IF vendor # pr.vendor THEN NoStable
                ELSE IF op = "UpdatePullRequestStatus" /\ ~err
                        /\ ~pr.stable.set
                THEN [set |-> TRUE, rec |-> rec]
                ELSE pr.stable]

\* CreatePullRequest hands back the record of a new, open pull request
OpenPullRequest(backend) ==
    /\ pr' = [active |-> TRUE, backend |-> backend,
              vendor |-> VendorPR(VendorOpen(backend), FALSE, FALSE),
              rec |-> IF backend = "gitlab"
                      THEN fromMergeRequest(
                             VendorPR(VendorOpen(backend), FALSE, FALSE))
                      ELSE IF backend = "gitea"
                      THEN PullRequest("", FALSE, FALSE, FALSE)
                      ELSE PullRequest(VendorOpen(backend), FALSE, FALSE, FALSE),
              op |-> "CreatePullRequest", err |-> FALSE, wasOpen |-> TRUE,
              everMerged |-> FALSE, everClosedAt |-> FALSE, changedBy |-> {},
              stable |-> NoStable]
    /\ UNCHANGED <<authVars, ar, wh, rb, repos, vr, pg, fake>>

\* UpdatePullRequestStatus: a failed fetch leaves the record alone; the cloud
\* adapter has changed the record when its second fetch, of the commits,
\* fails
UpdatePullRequestStatus(fetchOk, commitsOk) ==
    /\ pr.active
    /\ pr' = IF ~fetchOk
             THEN PRStep("UpdatePullRequestStatus", TRUE, pr.vendor, pr.rec)
             ELSE PRStep("UpdatePullRequestStatus",
                         pr.backend = "bitbucketcloud" /\ ~commitsOk,
                         pr.vendor,
                         RefreshRecord(pr.backend, pr.rec, pr.vendor))
    /\ UNCHANGED <<authVars, ar, wh, rb, repos, vr, pg, fake>>

\* MergePullRequest: the vendor merges an open pull request, or refuses
MergePullRequest(ok) ==
    /\ pr.active
    /\ pr' = IF ok /\ pr.vendor.State = VendorOpen(pr.backend)
             THEN PRStep("MergePullRequest", FALSE,
                         VendorPR(VendorMerged(pr.backend), TRUE,
                                  pr.vendor.ClosedAt),
                         MergeRecord(pr.rec))
             ELSE PRStep("MergePullRequest", TRUE, pr.vendor,
                         MergeRecord(pr.rec))
    /\ UNCHANGED <<authVars, ar, wh, rb, repos, vr, pg, fake>>

\* somebody closes (declines) the open pull request at the vendor
VendorClose ==
    /\ pr.active
    /\ pr.vendor.State = VendorOpen(pr.backend)
    /\ pr' = [pr EXCEPT !.vendor = VendorPR(VendorClosed(pr.backend),
                                            pr.vendor.MergedAt, TRUE),
                        !.op = "close", !.stable = NoStable]
    /\ UNCHANGED <<authVars, ar, wh, rb, repos, vr, pg, fake>>

\* somebody reopens the closed, unmerged pull request on GitLab or Gitea;
\* Bitbucket Cloud has no way back from DECLINED
VendorReopen(keepClosedAt) ==
    /\ pr.active
    /\ pr.backend \in {"gitlab", "gitea"}
    /\ pr.vendor.State = VendorClosed(pr.backend)
    /\ ~pr.vendor.MergedAt
    /\ pr' = [pr EXCEPT !.vendor = VendorPR(VendorOpen(pr.backend),
                                            pr.vendor.MergedAt, keepClosedAt),
                        !.op = "reopen", !.stable = NoStable]
    /\ UNCHANGED <<authVars, ar, wh, rb, repos, vr, pg, fake>>

NextPullRequest ==
    \/ \E backend \in PRBackends : OpenPullRequest(backend)
    \/ \E fetchOk \in BOOLEAN, commitsOk \in BOOLEAN :
          UpdatePullRequestStatus(fetchOk, commitsOk)
    \/ \E ok \in BOOLEAN : MergePullRequest(ok)
    \/ VendorClose
    \/ \E keepClosedAt \in BOOLEAN : VendorReopen(keepClosedAt)

SpecPullRequest == InitAuth /\ [][NextPullRequest]_vars

(***************************************************************************)
(* Webhooks                                                                *)
(***************************************************************************)

MaxHooks == 3

HookUrls == {"https://hook.example.com/a", "https://hook.example.com/b"}

\* the url is the target of one of the hooks
HasHook(hooks, url) == \E n \in 1..Len(hooks) : hooks[n] = url

\* the outcome of a CreateWebHook call and what the repository held before
HookResult(backend, url, err) ==
    [op |-> "CreateWebHook", backend |-> backend, url |-> url, err |-> err,
     existed |-> HasHook(wh.hooks[backend], url),
     before |-> wh.hooks[backend]]

\* GiteaProvider.CreateWebHook: the hooks of the repository afterwards
GiteaHooks(hooks, url, listOk, createOk) ==
    IF ~listOk THEN hooks
    ELSE IF HasHook(hooks, url) THEN hooks
    ELSE IF ~createOk THEN hooks
    ELSE Append(hooks, url)

\* GiteaProvider.CreateWebHook: list the hooks, return nil if one has the
\* URL, create the hook otherwise
GiteaCreateWebHook(url, listOk, createOk) ==
    /\ Len(wh.hooks["gitea"]) < MaxHooks
    /\ wh' = [hooks |-> [wh.hooks EXCEPT !["gitea"] =
                           GiteaHooks(@, url, listOk, createOk)],
              last |-> HookResult("gitea", url,
                         ~listOk \/ (~HasHook(wh.hooks["gitea"], url)
                                     /\ ~createOk))]
    /\ UNCHANGED <<authVars, ar, pr, rb, repos, vr, pg, fake>>

\* GitFakeProvider.CreateWebHook: append, return nil
FakeCreateWebHook(url) ==
    /\ Len(wh.hooks["fake"]) < MaxHooks
    /\ wh' = [hooks |-> [wh.hooks EXCEPT !["fake"] = Append(@, url)],
              last |-> HookResult("fake", url, FALSE)]
    /\ UNCHANGED <<authVars, ar, pr, rb, repos, vr, pg, fake>>

\* CloudProvider.CreateWebHook: post the hook, return the vendor's error
CloudCreateWebHook(url, ok) ==
    /\ Len(wh.hooks["bitbucketcloud"]) < MaxHooks
    /\ wh' = [hooks |-> [wh.hooks EXCEPT !["bitbucketcloud"] =
                           IF ok THEN Append(@, url) ELSE @],
              last |-> HookResult("bitbucketcloud", url, ~ok)]
    /\ UNCHANGED <<authVars, ar, pr, rb, repos, vr, pg, fake>>

NextWebHook ==
    \/ \E url \in HookUrls, listOk \in BOOLEAN, createOk \in BOOLEAN :
          GiteaCreateWebHook(url, listOk, createOk)
    \/ \E url \in HookUrls : FakeCreateWebHook(url)
    \/ \E url \in HookUrls, ok \in BOOLEAN : CloudCreateWebHook(url, ok)

SpecWebHook == InitAuth /\ [][NextWebHook]_vars

(***************************************************************************)
(* UpdateCommitStatus on the back ends without support for it              *)
(***************************************************************************)

\* the back ends whose UpdateCommitStatus makes no vendor call
UnsupportedBackends == {"bitbucketcloud", "bitbucketserver", "gitlab", "gitea",
                        "gerrit", "fake"}

Shas == {"sha1", "sha2", "sha3"}

\* the states of the normalised status vocabulary
RepoStates == {"pending", "success", "error", "failure", "in-progress",
               "stopped"}

\* the (*RepoStatus, error) the call returns: "TODO" is errors.New("TODO"),
\* "" is a nil error, "panic" is panic("implement me")
UpdateCommitStatusResult(backend) ==
    CASE backend \in {"bitbucketcloud", "bitbucketserver", "gitlab", "gitea"} ->
           [status |-> "empty", err |-> "TODO"]
      [] backend = "gerrit" -> [status |-> "nil", err |-> ""]
      [] OTHER -> [status |-> "nil", err |-> "panic"]

\* no vendor call is made, so no commit status is written
UpdateCommitStatus(backend, sha, state) ==
    /\ ar' = [op |-> "UpdateCommitStatus", backend |-> backend, sha |-> sha,
              state |-> state, updated |-> FALSE,
              ret |-> UpdateCommitStatusResult(backend)]
    /\ UNCHANGED <<authVars, adapterVars>>

NextCommitStatus ==
    \E backend \in UnsupportedBackends, sha \in Shas, state \in RepoStates :
        UpdateCommitStatus(backend, sha, state)

SpecCommitStatus == InitAuth /\ [][NextCommitStatus]_vars

(***************************************************************************)
(* Commit statuses read from the vendor                                    *)
(***************************************************************************)

MaxStatuses == 2

\* CreatedOn, DateAdded and CommitterTimestamp; 0 is the zero time
Times == {1, 2}

\* the state names of the Bitbucket API, and a status that carries none
BitbucketStateNames == {"SUCCESSFUL", "FAILED", "INPROGRESS", "STOPPED", ""}

\* the status names of the GitLab API
GitlabStatusNames == {"pending", "running", "success", "failed", "canceled"}

\* the state names of the Gitea API
GiteaStateNames == {"pending", "success", "error", "failure", "warning"}

\* a lookup in the map: a key without an entry yields the empty string
stateMap(state) ==
    CASE state = "SUCCESSFUL" -> "success"
      [] state = "FAILED" -> "failure"
      [] state = "INPROGRESS" -> "in-progress"
      [] state = "STOPPED" -> "stopped"
      [] OTHER -> ""

SeqsUpTo(S, n) == UNION {[1..k -> S] : k \in 0..n}

BitbucketStatuses == [State : BitbucketStateNames, At : Times]

NoStatus == [State |-> "", At |-> 0]

\* the status with the latest CreatedOn, the first of them on a tie
RECURSIVE LatestCommitStatus(_, _)
LatestCommitStatus(values, latest) ==
    IF values = <<>> THEN latest
    ELSE LatestCommitStatus(Tail(values),
                            IF Head(values).At > latest.At THEN Head(values)
                            ELSE latest)

\* the first build status added after the timestamp of the commit, or none
RECURSIVE FirstAddedAfter(_, _, _)
FirstAddedAfter(values, committerTimestamp, i) ==
    IF i > Len(values) THEN 0
    ELSE IF values[i].At > committerTimestamp THEN i
    ELSE FirstAddedAfter(values, committerTimestamp, i + 1)

\* failed holds the vendor calls of the operation that returned an error
StatusResult(op, vendor, failed, states, err) ==
    [op |-> op, vendor |-> vendor, failed |-> failed,
     ret |-> [states |-> states, err |-> err]]

\* the caller takes what the call returned; the adapters keep nothing of it
TakeResult ==
    /\ ar.op # "none"
    /\ ar' = [op |-> "none"]
    /\ UNCHANGED <<authVars, adapterVars>>

\* CloudProvider.PullRequestLastCommitStatus on one page of statuses
CloudPullRequestLastCommitStatus(ok, values) ==
    /\ ar.op = "none"
    /\ ar' = StatusResult("CloudProvider.PullRequestLastCommitStatus", values,
               IF ok THEN {} ELSE {"CommitstatusesApi.Get"},
               IF ~ok THEN <<"">>
               ELSE IF Len(values) = 0 THEN <<"success">>
               ELSE <<stateMap(LatestCommitStatus(values, NoStatus).State)>>,
               IF ok THEN "" ELSE "vendor error")
    /\ UNCHANGED <<authVars, adapterVars>>

\* CloudProvider.ListCommitStatus on one page of statuses
CloudListCommitStatus(ok, values) ==
    /\ ar.op = "none"
    /\ ar' = StatusResult("CloudProvider.ListCommitStatus", values,
               IF ok THEN {} ELSE {"CommitstatusesApi.Get"},
               IF ~ok THEN <<>>
               ELSE [i \in 1..Len(values) |-> stateMap(values[i].State)],
               IF ok THEN "" ELSE "vendor error")
    /\ UNCHANGED <<authVars, adapterVars>>

\* ServerProvider.PullRequestLastCommitStatus: the first build status added
\* after the last commit, success when there is none
ServerPullRequestLastCommitStatus(ok, committerTimestamp, values) ==
    /\ ar.op = "none"
    /\ LET first == FirstAddedAfter(values, committerTimestamp, 1)
       IN ar' = StatusResult("ServerProvider.PullRequestLastCommitStatus",
                  values,
                  IF ok THEN {} ELSE {"GetCommitBuildStatuses"},
                  IF ~ok THEN <<"">>
                  ELSE IF Len(values) = 0 \/ first = 0 THEN <<"success">>
                  ELSE <<stateMap(values[first].State)>>,
                  IF ok THEN "" ELSE "vendor error")
    /\ UNCHANGED <<authVars, adapterVars>>

\* GitlabProvider.ListCommitStatus: fromCommitStatus copies the status name
GitlabListCommitStatus(ok, values) ==
    /\ ar.op = "none"
    /\ ar' = StatusResult("GitlabProvider.ListCommitStatus", values,
               IF ok THEN {} ELSE {"GetCommitStatuses"},
               IF ok THEN values ELSE <<>>,
               IF ok THEN "" ELSE "vendor error")
    /\ UNCHANGED <<authVars, adapterVars>>

\* GiteaProvider.ListCommitStatus: the state name is copied, a vendor error
\* is replaced by an error of its own
GiteaListCommitStatus(ok, values) ==
    /\ ar.op = "none"
    /\ ar' = StatusResult("GiteaProvider.ListCommitStatus", values,
               IF ok THEN {} ELSE {"ListStatuses"},
               IF ok THEN values ELSE <<>>,
               IF ok THEN "" ELSE "Could not find a status")
    /\ UNCHANGED <<authVars, adapterVars>>

NextStatus ==
    \/ TakeResult
    \/ \E ok \in BOOLEAN, values \in SeqsUpTo(BitbucketStatuses, MaxStatuses) :
          CloudPullRequestLastCommitStatus(ok, values)
    \/ \E ok \in BOOLEAN, values \in SeqsUpTo(BitbucketStatuses, MaxStatuses) :
          CloudListCommitStatus(ok, values)
    \/ \E ok \in BOOLEAN, ts \in Times,
          values \in SeqsUpTo(BitbucketStatuses, MaxStatuses) :
          ServerPullRequestLastCommitStatus(ok, ts, values)
    \/ \E ok \in BOOLEAN, values \in SeqsUpTo(GitlabStatusNames, MaxStatuses) :
          GitlabListCommitStatus(ok, values)
    \/ \E ok \in BOOLEAN, values \in SeqsUpTo(GiteaStateNames, MaxStatuses) :
          GiteaListCommitStatus(ok, values)

SpecStatus == InitAuth /\ [][NextStatus]_vars

(***************************************************************************)
(* Vendor errors inside webhook and release operations                     *)
(***************************************************************************)

Tags == {"v1", "v2"}

MaxReleases == 2

\* GitlabProvider.CreateWebHook: the project is looked up, then the hook is
\* added; a failed lookup ends the call with a nil error
GitlabCreateWebHook(url, projectIdOk, addHookOk) ==
    /\ ar.op = "none"
    /\ ar' = [op |-> "GitlabProvider.CreateWebHook", vendor |-> <<url>>,
              failed |-> IF ~projectIdOk THEN {"projectId"}
                         ELSE IF ~addHookOk THEN {"AddProjectHook"} ELSE {},
              posted |-> projectIdOk /\ addHookOk,
              ret |-> [states |-> <<>>,
                       err |-> IF ~projectIdOk THEN ""
                               ELSE IF ~addHookOk THEN "AddProjectHook failed"
                               ELSE ""]]
    /\ UNCHANGED <<authVars, adapterVars>>

\* GiteaProvider.UpdateRelease: the error of ListReleases is overwritten by
\* the result of CreateRelease or EditRelease; releases is nil when the
\* listing failed
GiteaUpdateRelease(tag, listed, listOk, createOk, editOk) ==
    /\ ar.op = "none"
    /\ LET releases == IF listOk THEN listed ELSE <<>>
           found == \E n \in 1..Len(releases) : releases[n] = tag
           written == IF found THEN editOk ELSE createOk
       IN ar' = [op |-> "GiteaProvider.UpdateRelease", vendor |-> releases,
                 failed |-> (IF listOk THEN {} ELSE {"ListReleases"})
                            \cup (IF written THEN {}
                                  ELSE IF found THEN {"EditRelease"}
                                  ELSE {"CreateRelease"}),
                 posted |-> written,
                 ret |-> [states |-> <<>>,
                          err |-> IF written THEN ""
                                  ELSE IF found THEN "EditRelease failed"
                                  ELSE "CreateRelease failed"]]
    /\ UNCHANGED <<authVars, adapterVars>>

NextErrors ==
    \/ TakeResult
    \/ \E url \in HookUrls, projectIdOk \in BOOLEAN, addHookOk \in BOOLEAN :
          GitlabCreateWebHook(url, projectIdOk, addHookOk)
    \/ \E tag \in Tags, listed \in SeqsUpTo(Tags, MaxReleases),
          listOk \in BOOLEAN, createOk \in BOOLEAN, editOk \in BOOLEAN :
          GiteaUpdateRelease(tag, listed, listOk, createOk, editOk)
    \/ \E ok \in BOOLEAN, values \in SeqsUpTo(GiteaStateNames, MaxStatuses) :
          GiteaListCommitStatus(ok, values)
    \/ \E ok \in BOOLEAN, values \in SeqsUpTo(GitlabStatusNames, MaxStatuses) :
          GitlabListCommitStatus(ok, values)
    \/ \E ok \in BOOLEAN, values \in SeqsUpTo(BitbucketStatuses, MaxStatuses) :
          CloudListCommitStatus(ok, values)

SpecErrors == InitAuth /\ [][NextErrors]_vars

(***************************************************************************)
(* Issues closed since a cutoff                                            *)
(***************************************************************************)

MaxIssues == 2

\* an issue of the vendor: its state, when it was last updated and when it
\* was closed (0 while it is open); the issue number is its position
VendorIssues ==
    {i \in [State : {"open", "closed"}, UpdatedOn : Times, Closed : Times \cup {0}] :
        /\ i.State = "open" <=> i.Closed = 0
        /\ i.Closed <= i.UpdatedOn}

\* git.Issue; ClosedAt 0 is the nil pointer
Issue(number, state, closedAt) ==
    [Number |-> number, State |-> state, ClosedAt |-> closedAt]

\* BitbucketIssueToIssue: ClosedAt points at the UpdatedOn of the issue
BitbucketIssueToIssue(number, bIssue) ==
    Issue(number, bIssue.State, bIssue.UpdatedOn)

\* GiteaProvider.fromGiteaIssue: ClosedAt is the Closed of the issue
fromGiteaIssue(number, i) == Issue(number, i.State, i.Closed)

\* git.FilterIssuesClosedSince: keep the issues whose ClosedAt is set and not
\* before the cutoff
FilterIssuesClosedSince(issues, t) ==
    LET Keep(issue) == issue.ClosedAt # 0 /\ issue.ClosedAt >= t
    IN SelectSeq(issues, Keep)

IssuesResult(op, vendor, t, failed, search, issues, err) ==
    [op |-> op, vendor |-> vendor, cutoff |-> t, failed |-> failed,
     search |-> search,
     ret |-> [issues |-> issues, states |-> <<>>, err |-> err]]

\* CloudProvider.SearchIssuesClosedSince: SearchIssues, then the filter
CloudSearchIssuesClosedSince(ok, vendor, t) ==
    /\ ar.op = "none"
    /\ LET search == [n \in 1..Len(vendor) |-> BitbucketIssueToIssue(n, vendor[n])]
       IN ar' = IssuesResult("CloudProvider.SearchIssuesClosedSince", vendor, t,
                  IF ok THEN {} ELSE {"IssueTrackerApi.IssuesGet"},
                  IF ok THEN search ELSE <<>>,
                  IF ok THEN FilterIssuesClosedSince(search, t) ELSE <<>>,
                  IF ok THEN "" ELSE "vendor error")
    /\ UNCHANGED <<authVars, adapterVars>>

\* GiteaProvider.SearchIssuesClosedSince: searchIssuesWithOptions, where a
\* 404 of the vendor is an empty list, then the filter
GiteaSearchIssuesClosedSince(outcome, vendor, t) ==
    /\ ar.op = "none"
    /\ LET search == [n \in 1..Len(vendor) |-> fromGiteaIssue(n, vendor[n])]
       IN ar' = IssuesResult("GiteaProvider.SearchIssuesClosedSince", vendor, t,
                  IF outcome = "ok" THEN {} ELSE {"ListRepoIssues"},
                  IF outcome = "ok" THEN search ELSE <<>>,
                  IF outcome = "ok" THEN FilterIssuesClosedSince(search, t)
                  ELSE <<>>,
                  IF outcome = "error" THEN "vendor error" ELSE "")
    /\ UNCHANGED <<authVars, adapterVars>>

NextIssues ==
    \/ TakeResult
    \/ \E ok \in BOOLEAN, vendor \in SeqsUpTo(VendorIssues, MaxIssues),
          t \in Times : CloudSearchIssuesClosedSince(ok, vendor, t)
    \/ \E outcome \in {"ok", "404", "error"},
          vendor \in SeqsUpTo(VendorIssues, MaxIssues), t \in Times :
          GiteaSearchIssuesClosedSince(outcome, vendor, t)

SpecIssues == InitAuth /\ [][NextIssues]_vars

(***************************************************************************)
(* Credential resolution                                                   *)
(***************************************************************************)

Resolved == result.op = "resolve"

\* the last call found exactly one stored credential, no Kind on the server
\* and was given no explicit kind, outside batch mode
OneStoredKindUnset ==
    /\ Resolved
    /\ Len(result.pre.userAuths) = 1
    /\ result.pre.storedKind = ""
    /\ result.gitKind = ""
    /\ ~result.batchMode

ReturnsStoredUser(adapter) ==
    /\ result.err = ""
    /\ result.provider = [none |-> FALSE, kind |-> adapter,
                          user |-> result.pre.userAuths[1], url |-> result.url]
    /\ result.asked = <<>>

\* C1 as stated: for any host with exactly one stored credential and Kind
\* unset, resolving in non-batch mode returns the GitHub-like provider for the
\* stored user and the host URL, and asks nothing.
C1_AnyHostGitHub == OneStoredKindUnset => ReturnsStoredUser(KindGitHub)

\* C1 amended: the same, for hosts whose URL does not begin with
\* https://bitbucket.org; for those the Bitbucket Cloud provider is returned
\* (for the stored user and the host URL, and asking nothing).
C1_OneStoredUser ==
    OneStoredKindUnset =>
        IF HasBitbucketOrgPrefix(result.url)
        THEN ReturnsStoredUser(KindBitBucketCloud)
        ELSE ReturnsStoredUser(KindGitHub)

C1_Witness ==
    /\ OneStoredKindUnset
    /\ result.url = "github.com"
    /\ result.provider.kind = KindGitHub
    /\ result.provider.user.Username = "alice"

AllReadsInvalid ==
    \A i \in 1..Len(result.envReads) : IsInvalid(result.envReads[i].auth)

\* C2: nothing stored for the host, no valid environment credential, batch
\* mode: the call fails, returns no provider, and the interactive collaborator
\* is never invoked (nor is anything saved).
C2_BatchModeFails ==
    (Resolved /\ result.pre.userAuths = <<>> /\ AllReadsInvalid /\ result.batchMode)
        => /\ result.err # ""
           /\ result.provider = NoProvider
           /\ result.asked = <<>>
           /\ ~result.saveCalled

C2_Witness ==
    /\ Resolved /\ result.pre.userAuths = <<>> /\ AllReadsInvalid
    /\ result.batchMode
    /\ Len(result.envReads) = 2
    /\ result.err = "no credentials available"

ReadPrefixes == [i \in 1..Len(result.envReads) |-> result.envReads[i].prefix]

\* C3: the environment is read only when nothing is stored for the host; the
\* prefix of the upper-cased Kind is read before GIT (and GIT only if the
\* Kind's credential is invalid or there is no Kind); a credential from the
\* environment is used exactly when the first one read that is valid exists,
\* and then nothing is asked.
C3_EnvironmentOrder ==
    Resolved =>
        /\ result.envReads # <<>> <=> result.pre.userAuths = <<>>
        /\ result.envReads # <<>> =>
              /\ ReadPrefixes \in
                    IF result.kind = "" THEN {<<"GIT">>}
                    ELSE {<<ToUpper(result.kind)>>, <<ToUpper(result.kind), "GIT">>}
              /\ \A i \in 1..(Len(result.envReads) - 1) :
                    IsInvalid(result.envReads[i].auth)
              /\ Len(ReadPrefixes) = 1 /\ result.kind # "" =>
                    ~IsInvalid(result.envReads[1].auth)
        /\ result.source = "env" <=>
              (result.envReads # <<>> /\ ~AllReadsInvalid)
        /\ result.source = "env" =>
              /\ ~IsInvalid(result.auth)
              /\ result.auth = result.envReads[Len(result.envReads)].auth
              /\ result.provider # NoProvider
              /\ result.provider.user = result.auth
              /\ result.asked = <<>>

\* both prefixes hold a valid credential and the Kind's one is used
C3_Witness ==
    /\ Resolved /\ result.source = "env"
    /\ result.kind = KindGitlab
    /\ ReadPrefixes = <<"GITLAB">>
    /\ result.auth.Username = "envkind"

C3_WitnessGit ==
    /\ Resolved /\ result.source = "env"
    /\ ReadPrefixes = <<"GITHUB", "GIT">>
    /\ result.auth.BearerToken = "gbearer"

CurrentUserStored ==
    /\ result.pre.currentUser # ""
    /\ \E i \in 1..Len(result.pre.userAuths) :
          result.pre.userAuths[i].Username = result.pre.currentUser

\* C4: with several credentials stored for the host, the call uses the
\* credential of the server's CurrentUser whenever CurrentUser is set and in
\* the list, wherever in the list it is.
C4_UsesCurrentUser ==
    (Resolved /\ Len(result.pre.userAuths) > 1 /\ CurrentUserStored)
        => /\ result.provider # NoProvider
           /\ result.provider.user.Username = result.pre.currentUser

Interactive ==
    /\ Resolved
    /\ result.pre.userAuths = <<>>
    /\ AllReadsInvalid
    /\ ~result.batchMode

\* the survey was answered and the saver wrote the config
AskedAndSaved == Interactive /\ result.saveCalled /\ result.saveOk

SavedAndUsed ==
    /\ result.err = ""
    /\ \E i \in 1..Len(FindUserAuths(config, result.url)) :
          FindUserAuths(config, result.url)[i] = result.auth
    /\ saved = config
    /\ ~IsInvalid(result.auth)
    /\ config.DefaultUsername = result.auth.Username
    /\ result.pre.saveCalls = 0 =>
          /\ config.PipeLineUsername = result.auth.Username
          /\ config.PipeLineServer = result.url
    /\ result.provider # NoProvider
    /\ result.provider.user = result.auth
    /\ result.provider.url = result.url

C5_Witness ==
    /\ AskedAndSaved
    /\ result.pre.saveCalls = 0
    /\ result.asked = <<"username", "apiToken">>
    /\ result.provider.user = UserAuth("carol", "ptok", "")
    /\ config.PipeLineUsername = "carol"

C10_FirstWriterWins ==
    (hist.ok >= 2 /\ ~hist.failed)
        => /\ config.PipeLineServer = hist.first.url
           /\ config.PipeLineUsername = hist.first.user

(***************************************************************************)
(* Read-back after create                                                  *)
(***************************************************************************)

ReadBackDone == rb.pc = "done"

\* the create succeeded and no read-back of the finished call did
NeverReadBack == ReadBackDone /\ rb.created /\ rb.firstOk = 0

\* the reads one call may issue: the cloud adapter reads once before its loop
ReadLimit(op) == IF op \in CloudOps THEN MaxAttempts + 1 ELSE MaxAttempts

C6_WitnessLate ==
    /\ ReadBackDone
    /\ rb.op \in ServerOps
    /\ rb.firstOk = MaxAttempts - 1
    /\ ~rb.ret.err

C7_WitnessServer ==
    /\ NeverReadBack
    /\ rb.op = "ServerProvider.ForkRepository"
    /\ rb.ret.err

(***************************************************************************)
(* Repository name validation                                              *)
(***************************************************************************)

Validated == vr.op = "validate"

\* C8 as stated: on every back end, ValidateRepositoryName returns no error
\* only when the vendor reports the repository as not found, returns an
\* "already exists" error whenever the fetch succeeds, and returns any other
\* vendor error to the caller.
C8_ValidateRepositoryName ==
    Validated =>
        /\ vr.ret = "ok" => vr.vendor = "notFound"
        /\ vr.vendor = "found" => vr.ret = "already exists"
        /\ vr.vendor = "error" => vr.ret = "vendor error"

\* the GitLab adapter reported a name as free although the listing failed
C8_GitlabMasksError ==
    /\ Validated
    /\ vr.backend = "gitlab"
    /\ vr.vendor = "error"
    /\ vr.ret = "ok"

\* the Gerrit adapter reported the name of an existing repository as free
C8_GerritIgnoresVendor ==
    /\ Validated
    /\ vr.backend = "gerrit"
    /\ vr.vendor = "found"
    /\ vr.ret = "ok"

(***************************************************************************)
(* Pagination                                                              *)
(***************************************************************************)

\* the number of requests a call made for page p
Requests(p) == Cardinality({n \in 1..Len(pg.fetched) : pg.fetched[n] = p})

\* C9 as stated: a list call against a back end of K pages of S items fetches
\* each page once, returns exactly the K x S items of all pages, and returns
\* no partial result.
C9_AllPagesOnce ==
    pg.pc # "idle" =>
        /\ \A p \in 1..pg.pages : Requests(p) <= 1
        /\ (pg.pc = "done" /\ ~pg.ret.err) =>
             /\ pg.ret.items = AllPages(pg.pages, pg.size)
             /\ Len(pg.ret.items) = pg.pages * pg.size
        /\ (pg.pc = "done" /\ pg.ret.err) => pg.ret.nil

\* ListCommitStatus asked a back end of two pages for the first page twice
C9_FirstPageAgain ==
    /\ pg.pc = "fetch"
    /\ pg.op = "ServerProvider.ListCommitStatus"
    /\ pg.pages = 2
    /\ pg.fetched = <<1, 1>>

\* what ListOrganisations does: every page once, all items
C9_ListOrganisations ==
    (pg.pc # "idle" /\ pg.op = "CloudProvider.ListOrganisations") =>
        /\ \A p \in 1..pg.pages : Requests(p) <= 1
        /\ (pg.pc = "done" /\ ~pg.ret.err) =>
             pg.ret.items = AllPages(pg.pages, pg.size)

(***************************************************************************)
(* The credential store                                                    *)
(***************************************************************************)

\* the usernames of a user list are pairwise different
UniqueUsernames(users) ==
    \A m, n \in 1..Len(users) :
        users[m].Username = users[n].Username => m = n

\* C11: after any sequence of SetUserAuth calls every server's user list
\* holds at most one entry per username, and a second SetUserAuth(url, A)
\* with the content of the first leaves the user list, and so its length,
\* as the first left it.
C11_UpsertUnique ==
    /\ \A i \in 1..Len(config.Servers) :
          UniqueUsernames(config.Servers[i].Users)
    /\ \A url \in Urls, a \in Creds :
          LET once == SetUserAuth(config, url, a)
              twice == SetUserAuth(once, url, a)
          IN  /\ Len(FindUserAuths(twice, url)) = Len(FindUserAuths(once, url))
              /\ FindUserAuths(twice, url) = FindUserAuths(once, url)

\* the same credential was saved twice for one server, which holds one user
C11_Witness ==
    /\ result.op = "save"
    /\ hist.calls = 2
    /\ hist.first.url = result.url
    /\ hist.first.user = result.user.Username
    /\ Len(FindUserAuths(config, result.url)) = 1

\* C12: for every combination of empty and non-empty Username, ApiToken and
\* BearerToken, the credential is classified invalid exactly when BearerToken
\* is empty and (Username is empty or ApiToken is empty).
C12_IsInvalid ==
    result.op = "isInvalid" =>
        (result.invalid <=>
            /\ result.auth.BearerToken = ""
            /\ (result.auth.Username = "" \/ result.auth.ApiToken = ""))

\* a credential with a token and no username was classified invalid
C12_Witness ==
    /\ result.op = "isInvalid"
    /\ result.auth.Username = ""
    /\ result.auth.ApiToken # ""
    /\ result.auth.BearerToken = ""
    /\ result.invalid

\* a credential with nothing but a bearer token was classified valid
C12_WitnessBearer ==
    /\ result.op = "isInvalid"
    /\ result.auth.Username = ""
    /\ result.auth.ApiToken = ""
    /\ result.auth.BearerToken # ""
    /\ ~result.invalid

(***************************************************************************)
(* The fake provider                                                       *)
(***************************************************************************)

\* the fake provider holds a repository of that name in the organisation
FakeHolds(org, name) ==
    /\ ~fake[org].none
    /\ RepositoryIndex(fake[org].Repositories, name) # 0

\* C13 as stated: against the fake provider ValidateRepositoryName(org, name)
\* returns no error when the organisation has no repository of that name and
\* an "already exists" error once CreateRepository(org, name, false) made
\* one.
C13_FakeValidates ==
    (vr.op = "validate" /\ vr.backend = "fake") =>
        vr.ret = IF FakeHolds(vr.org, vr.name) THEN "already exists"
                 ELSE "ok"

\* the fake provider was asked to validate a name it holds no repository of
C13_FakePanics ==
    /\ vr.op = "validate"
    /\ vr.backend = "fake"
    /\ ~FakeHolds(vr.org, vr.name)
    /\ vr.ret = "panic"

(***************************************************************************)
(* The provider factory                                                    *)
(***************************************************************************)

Dispatched == result.op = "createProvider"

\* the kinds the dispatch of the called function names
DispatchKinds(fn) ==
    IF fn = "CreateProvider"
    THEN {KindBitBucketCloud, KindBitBucketServer, KindGitea, KindGitlab}
    ELSE {KindBitBucketCloud, KindBitBucketServer, KindGitea, KindGitlab,
          KindGitFake}

\* C14 as stated: the factory dispatches purely on the server's Kind, and
\* whenever Kind is unset or unrecognized it returns the github-like adapter,
\* whatever the server URL is.
C14_PureDispatch ==
    Dispatched =>
        result.adapter = IF result.server.Kind \in DispatchKinds(result.fn)
                         THEN result.server.Kind
                         ELSE KindGitHub

\* C14 amended: the factory dispatches on the server's Kind; CreateProvider
\* returns the Bitbucket Cloud adapter when Kind is unset and the URL begins
\* with https://bitbucket.org; otherwise an unset or unrecognized Kind gets
\* the github-like adapter whatever the URL is.
C14_DispatchOnKind ==
    Dispatched =>
        result.adapter =
            IF result.server.Kind \in DispatchKinds(result.fn)
            THEN result.server.Kind
            ELSE IF /\ result.fn = "CreateProvider"
                    /\ result.server.Kind = ""
                    /\ HasBitbucketOrgPrefix(result.server.URL)
            THEN KindBitBucketCloud
            ELSE KindGitHub

\* CreateProvider met a server without Kind at https://bitbucket.org
C14_Witness ==
    /\ Dispatched
    /\ result.fn = "CreateProvider"
    /\ result.server.Kind = ""
    /\ HasBitbucketOrgPrefix(result.server.URL)
    /\ result.adapter = KindBitBucketCloud

\* CreateProvider met a server of a kind it does not know
C14_WitnessUnrecognized ==
    /\ Dispatched
    /\ result.fn = "CreateProvider"
    /\ result.server.Kind = "gerrit"
    /\ result.adapter = KindGitHub

(***************************************************************************)
(* The Kind of a stored server                                             *)
(***************************************************************************)

\* the Kind the store holds for the host, "" if it holds no such server
StoredKind(c, url) ==
    IF ServerIndex(c, url) = 0 THEN "" ELSE c.Servers[ServerIndex(c, url)].Kind

\* C15 as stated: an explicit kind passed to CreateProviderForURL sets the
\* stored Server.Kind of the host, and a later call for the host without an
\* explicit kind finds and uses the stored Kind.
C15_KindSticky ==
    /\ (Resolved /\ result.gitKind # "") =>
           StoredKind(config, result.url) = result.gitKind
    /\ (Resolved /\ result.gitKind = "" /\ result.pre.storedKind # "") =>
           result.kind = result.pre.storedKind

\* a call with an explicit kind used it and left the stored server without
C15_KindNotStored ==
    /\ Resolved
    /\ result.gitKind = KindGitlab
    /\ result.kind = KindGitlab
    /\ ServerIndex(config, result.url) # 0
    /\ StoredKind(config, result.url) # KindGitlab

(***************************************************************************)
(* A failed save of an interactively created credential                    *)
(***************************************************************************)

\* the last call asked for a credential and the saver failed to write it
PromptedSaveFailed ==
    /\ Resolved
    /\ result.source = "prompt"
    /\ result.saveCalled
    /\ ~result.saveOk

\* the store holds an entry for the username at the host
Holds(c, url, username) == UserIndex(FindUserAuths(c, url), username) # 0

\* C16 as stated: if persisting an interactively created credential fails,
\* the call returns an error and no provider, the save is made once, and the
\* credential is not left in the credential store.
C16_FailedSaveDiscards ==
    PromptedSaveFailed =>
        /\ result.err # ""
        /\ result.provider = NoProvider
        /\ hist.calls = result.pre.saveCalls + 1
        /\ ~Holds(config, result.url, result.auth.Username)

\* the save failed, the call returned an error and no provider, and the
\* credential is in the in-memory store while the saver never wrote it
C16_CredentialKept ==
    /\ PromptedSaveFailed
    /\ result.err # ""
    /\ result.provider = NoProvider
    /\ hist.calls = result.pre.saveCalls + 1
    /\ Holds(config, result.url, result.auth.Username)
    /\ saved = NoConfig

(***************************************************************************)
(* Deleting a server                                                       *)
(***************************************************************************)

Deleted == result.op = "delete"

\* the URL is among the URLs of a list
InUrls(url, urls) == \E n \in 1..Len(urls) : urls[n] = url

\* the URLs of the list without the URL
WithoutUrl(urls, url) ==
    LET IsOther(u) == u # url IN SelectSeq(urls, IsOther)

\* the last call deleted the server that was the current one
DeletedCurrent ==
    /\ Deleted
    /\ InUrls(result.url, result.pre.urls)
    /\ result.pre.CurrentServer = result.url

C19_UniqueUrls ==
    /\ \A m, n \in 1..Len(config.Servers) :
          config.Servers[m].URL = config.Servers[n].URL => m = n
    /\ (result.op = "getOrCreate" /\ InUrls(result.url, result.pre.urls)) =>
          /\ ServerURLs(config) = result.pre.urls
          /\ result.server = config.Servers[ServerIndex(config, result.url)]

\* GetOrCreateServer was called for a URL the store of two servers held
C19_Witness ==
    /\ result.op = "getOrCreate"
    /\ InUrls(result.url, result.pre.urls)
    /\ Len(config.Servers) = 2
    /\ Len(result.server.Users) > 0

(***************************************************************************)
(* The state of a pull-request record                                      *)
(***************************************************************************)

RecordOpen == pr.rec.State = VendorOpen(pr.backend)

\* C20 as stated: a pull-request record only moves from open to merged or
\* declined/closed: once Merged or ClosedAt has been set on it, no later
\* operation returns it to open, and no operation other than
\* UpdatePullRequestStatus (in particular not MergePullRequest) changes its
\* state.
C20_TerminalOnceClosed ==
    pr.active =>
        /\ (pr.everMerged \/ pr.everClosedAt) => ~RecordOpen
        /\ pr.changedBy \subseteq {"UpdatePullRequestStatus"}

\* C20 amended: no operation other than UpdatePullRequestStatus (in
\* particular not MergePullRequest) changes the state of a pull-request
\* record, and a refresh sets it to the state the vendor reports.  Once Merged
\* has been set on a record no later operation returns it to open; the cloud
\* adapter never sets ClosedAt.  A closed record is as final as the vendor's
\* pull request is.
C20_RecordMirrorsVendor ==
    pr.active =>
        /\ pr.everMerged => ~RecordOpen
        /\ pr.changedBy \subseteq {"UpdatePullRequestStatus"}
        /\ pr.backend = "bitbucketcloud" => ~pr.everClosedAt
        /\ (pr.op = "UpdatePullRequestStatus" /\ ~pr.err) =>
              pr.rec.State = pr.vendor.State

\* a merge left the open record alone and the refresh after it set Merged
C20_Witness ==
    /\ pr.active
    /\ pr.op = "UpdatePullRequestStatus"
    /\ pr.wasOpen
    /\ pr.rec.Merged
    /\ pr.rec.State = VendorMerged(pr.backend)
    /\ pr.changedBy = {"UpdatePullRequestStatus"}

\* a GitLab record that had ClosedAt set is open after a refresh
C20_Reopened ==
    /\ pr.active
    /\ pr.backend = "gitlab"
    /\ pr.op = "UpdatePullRequestStatus"
    /\ pr.everClosedAt
    /\ RecordOpen

\* C21: UpdatePullRequestStatus is idempotent: once a refresh has succeeded,
\* any number of further calls while the vendor's pull request is unchanged
\* leaves the record identical to the record after that first call.
C21_RefreshIdempotent ==
    pr.active =>
        /\ pr.stable.set => pr.rec = pr.stable.rec
        /\ LET once == RefreshRecord(pr.backend, pr.rec, pr.vendor)
           IN  RefreshRecord(pr.backend, once, pr.vendor) = once

\* a refresh was repeated on a merged pull request and changed nothing
C21_Witness ==
    /\ pr.active
    /\ pr.op = "UpdatePullRequestStatus"
    /\ pr.stable.set
    /\ ~pr.wasOpen
    /\ pr.rec.Merged
    /\ pr.rec = pr.stable.rec

(***************************************************************************)
(* Webhooks                                                                *)
(***************************************************************************)

\* the number of hooks of the list with the target URL
HooksWith(hooks, url) == Cardinality({n \in 1..Len(hooks) : hooks[n] = url})

\* C22 as stated: creating a webhook whose target URL already exists on the
\* repository creates nothing and returns without error, so after any number
\* of CreateWebHook calls with one target URL exactly one hook with that URL
\* exists.
C22_CreateWebHookIdempotent ==
    /\ \A b \in HookBackends, url \in HookUrls :
          HooksWith(wh.hooks[b], url) <= 1
    /\ (wh.last.op = "CreateWebHook" /\ wh.last.existed) =>
          /\ ~wh.last.err
          /\ wh.hooks[wh.last.backend] = wh.last.before

\* the fake provider holds two hooks with one target URL
C22_FakeDuplicates ==
    /\ wh.last.op = "CreateWebHook"
    /\ wh.last.backend = "fake"
    /\ wh.last.existed
    /\ HooksWith(wh.hooks["fake"], wh.last.url) = 2

\* what the Gitea adapter does: a hook is created once per target URL
C22_GiteaIdempotent ==
    /\ \A url \in HookUrls : HooksWith(wh.hooks["gitea"], url) <= 1
    /\ (wh.last.op = "CreateWebHook" /\ wh.last.backend = "gitea"
        /\ wh.last.existed) =>
          wh.hooks["gitea"] = wh.last.before

(***************************************************************************)
(* Commit statuses                                                         *)
(***************************************************************************)

\* C23 as stated: on every back end that does not support updating a commit
\* status, UpdateCommitStatus returns an explicit error; it never returns
\* success without having updated anything.
C23_UnsupportedIsError ==
    ar.op = "UpdateCommitStatus" =>
        /\ ar.ret.err \notin {"", "panic"}
        /\ ar.ret.err = "" => ar.updated

\* the Gerrit adapter returned no error and had written no status
C23_GerritSilent ==
    /\ ar.op = "UpdateCommitStatus"
    /\ ar.backend = "gerrit"
    /\ ar.ret.err = ""
    /\ ~ar.updated

(***************************************************************************)
(* The mutating call of fork and create pull request                       *)
(***************************************************************************)

\* C24: within one create-pull-request or fork call the mutating vendor call
\* is issued exactly once, however many read-back attempts fail; the retries
\* only re-read state.
C24_CreateIssuedOnce ==
    /\ rb.pc \in {"create", "createFork"} => rb.creates = 0
    /\ rb.pc \notin {"idle", "create", "createFork"} => rb.creates = 1

\* a cloud call gave up after 31 failed reads and had created once
C24_Witness ==
    /\ rb.pc = "done"
    /\ rb.op \in CloudOps
    /\ rb.created /\ rb.err
    /\ rb.reads = MaxAttempts + 1
    /\ rb.creates = 1

\* a GitHub fork gave up at the deadline after its failed reads
C24_WitnessGitHub ==
    /\ rb.pc = "done"
    /\ rb.op = GitHubFork
    /\ rb.ret.err
    /\ rb.reads >= ForkDeadlineSeconds \div ForkSleepSeconds
    /\ rb.creates = 1

(***************************************************************************)
(* The pipeline credential                                                 *)
(***************************************************************************)

\* C25 as stated: PipeLineUsername and PipeLineServer are set only by a
\* successful credential save and are set together: while no save has
\* persisted both are unset, and at no time is one of the two set while the
\* other is empty.
C25_PipelineSetTogether ==
    /\ (config.PipeLineUsername = "") <=> (config.PipeLineServer = "")
    /\ hist.ok = 0 =>
         /\ config.PipeLineUsername = ""
         /\ config.PipeLineServer = ""

\* a SaveUserAuth call whose persistence failed set both pipeline fields
C25_SetByFailedSave ==
    /\ result.op = "save"
    /\ result.err # ""
    /\ hist.ok = 0
    /\ config.PipeLineUsername = result.user.Username
    /\ config.PipeLineUsername # ""
    /\ config.PipeLineServer = result.url

\* a credential without a user name set PipeLineServer alone
C25_ServerWithoutUsername ==
    /\ result.op = "save"
    /\ result.user.Username = ""
    /\ config.PipeLineUsername = ""
    /\ config.PipeLineServer = result.url

(***************************************************************************)
(* Persistence of the credential store                                     *)
(***************************************************************************)

\* C26 as stated: every mutating operation on the credential store is
\* followed by a persistence call that writes the whole store, so after each
\* operation the persisted form equals the in-memory store.
C26_PersistedEqualsMemory ==
    result.op \in {"save", "resolve", "delete"} => saved = config

\* a resolution that took its credential from the environment added the
\* server to the in-memory store and persisted nothing
C26_ResolveUnsaved ==
    /\ result.op = "resolve"
    /\ result.err = ""
    /\ result.source = "env"
    /\ ~result.saveCalled
    /\ Len(config.Servers) = 1
    /\ saved = NoConfig

\* a save whose persistence failed left the stores apart
C26_FailedSaveDiverges ==
    /\ result.op = "save"
    /\ result.err # ""
    /\ saved # config

StatusOps ==
    {"CloudProvider.PullRequestLastCommitStatus",
     "CloudProvider.ListCommitStatus",
     "ServerProvider.PullRequestLastCommitStatus",
     "GitlabProvider.ListCommitStatus", "GiteaProvider.ListCommitStatus"}

\* C28 as stated: for every vendor state name, the state an adapter returns
\* in a RepoStatus or as the last-commit status is one of pending, success,
\* error, failure, in-progress, stopped; it is never empty or an untranslated
\* vendor name.
C28_StatesNormalised ==
    (ar.op \in StatusOps /\ ar.ret.err = "") =>
        \A i \in 1..Len(ar.ret.states) : ar.ret.states[i] \in RepoStates

\* the GitLab adapter handed out the vendor's name "running"
C28_Untranslated ==
    /\ ar.op = "GitlabProvider.ListCommitStatus"
    /\ ar.ret.err = ""
    /\ ar.ret.states = <<"running">>

\* the cloud adapter returned an empty last-commit status
C28_EmptyState ==
    /\ ar.op = "CloudProvider.PullRequestLastCommitStatus"
    /\ ar.ret.err = ""
    /\ ar.ret.states = <<"">>

\* the documented Bitbucket states all translate into the vocabulary
C28_BitbucketTranslated ==
    (/\ ar.op \in {"CloudProvider.PullRequestLastCommitStatus",
                   "CloudProvider.ListCommitStatus",
                   "ServerProvider.PullRequestLastCommitStatus"}
     /\ ar.ret.err = ""
     /\ \A i \in 1..Len(ar.vendor) :
           ar.vendor[i] \in [State : BitbucketStateNames \ {""}, At : Times])
    => \A i \in 1..Len(ar.ret.states) : ar.ret.states[i] \in RepoStates

(***************************************************************************)
(* Vendor errors                                                           *)
(***************************************************************************)

\* C27 as stated: whenever a vendor call inside an adapter operation fails,
\* the operation returns an error to its caller; it never reports success or
\* an empty result.
C27_VendorErrorReturned ==
    (ar.op # "none" /\ ar.failed # {}) => ar.ret.err # ""

\* the GitLab adapter could not find the project and reported success
C27_GitlabSilent ==
    /\ ar.op = "GitlabProvider.CreateWebHook"
    /\ ar.failed = {"projectId"}
    /\ ~ar.posted
    /\ ar.ret.err = ""

\* the Gitea adapter lost the error of ListReleases and created a release
C27_GiteaListErrorLost ==
    /\ ar.op = "GiteaProvider.UpdateRelease"
    /\ ar.failed = {"ListReleases"}
    /\ ar.posted
    /\ ar.ret.err = ""

\* the list operations do return an error when their vendor call fails
C27_ListErrorsReturned ==
    (/\ ar.op \in {"GiteaProvider.ListCommitStatus",
                   "GitlabProvider.ListCommitStatus",
                   "CloudProvider.ListCommitStatus"}
     /\ ar.failed # {})
    => ar.ret.err # "" /\ ar.ret.states = <<>>

(***************************************************************************)
(* Issues closed since a cutoff                                            *)
(***************************************************************************)

ClosedSinceOps ==
    {"CloudProvider.SearchIssuesClosedSince",
     "GiteaProvider.SearchIssuesClosedSince"}

Returned(number) ==
    \E n \in 1..Len(ar.ret.issues) : ar.ret.issues[n].Number = number

\* C29 as stated: SearchIssuesClosedSince(cutoff) returns exactly those
\* issues of search whose ClosedAt is set and not earlier than the cutoff; an
\* issue that is not closed is never returned.
C29_ClosedSince ==
    (ar.op \in ClosedSinceOps /\ ar.ret.err = "") =>
        /\ \A n \in 1..Len(ar.search) :
              Returned(n) <=> /\ ar.search[n].ClosedAt # 0
                              /\ ar.search[n].ClosedAt >= ar.cutoff
        /\ \A n \in 1..Len(ar.vendor) :
              ar.vendor[n].State = "open" => ~Returned(n)

\* the cloud adapter returned an open issue that was updated after the cutoff
C29_OpenReturned ==
    /\ ar.op = "CloudProvider.SearchIssuesClosedSince"
    /\ ar.ret.err = ""
    /\ ar.cutoff = 2
    /\ Len(ar.vendor) = 1
    /\ ar.vendor[1].State = "open"
    /\ Returned(1)

\* the Gitea adapter returns the closed issues since the cutoff and no other
C29_GiteaClosedSince ==
    (ar.op = "GiteaProvider.SearchIssuesClosedSince" /\ ar.ret.err = "") =>
        \A n \in 1..Len(ar.search) :
            Returned(n) <=> /\ ar.vendor[n].State = "closed"
                            /\ ar.vendor[n].Closed >= ar.cutoff

(***************************************************************************)
(* Invalid credentials from interactive entry                              *)
(***************************************************************************)

\* the interactive entry went through and its credential fails the check
EnteredInvalid ==
    /\ result.op = "resolve"
    /\ result.source = "prompt"
    /\ result.asked # <<>>
    /\ result.err \notin {"prompt failed", "no credentials available"}
    /\ IsInvalid(result.auth)

\* C30 as stated: the resolver never stores an invalid credential: when
\* interactive entry yields a credential that fails the validity check, the
\* call fails with the "you did not properly define the user authentication"
\* error and neither the in-memory store nor the persisted config contains
\* that credential.
C30_InvalidNeverStored ==
    EnteredInvalid =>
        /\ result.err = "you did not properly define the user authentication"
        /\ result.provider = NoProvider
        /\ ~Holds(config, result.url, result.auth.Username)
        /\ saved # NoConfig => ~Holds(saved, result.url, result.auth.Username)

\* the call failed with the error of the validity check, and the credential
\* without a token is in the in-memory store and in the persisted config
C30_InvalidStored ==
    /\ EnteredInvalid
    /\ result.err = "you did not properly define the user authentication"
    /\ result.pre.saveCalls = 0
    /\ Holds(config, result.url, result.auth.Username)
    /\ saved = config
    /\ FindUserAuths(saved, result.url)[1].ApiToken = ""

\* the error of the validity check is returned for every invalid entry that
\* the saver accepted
C30_InvalidFails ==
    (EnteredInvalid /\ result.saveOk) =>
        /\ result.err = "you did not properly define the user authentication"
        /\ result.provider = NoProvider

====
